---- MODULE Spec2Model ----
(***************************************************************************)
(* A model of the 0xGQLForge interception core:                            *)
(*   - the MITM proxy engine and its event bus  (internal/proxy/proxy.go)  *)
(*   - the certificate manager                  (internal/proxy/cert.go)   *)
(*   - schema inference from captured traffic   (internal/inference)       *)
(* Each subsystem has its own specification over the shared variables.     *)
(***************************************************************************)
EXTENDS Integers, Sequences, FiniteSets, TLC

(***************************************************************************)
(* Bounds of the model.                                                    *)
(***************************************************************************)
\* requests read in one run of the forwarding and of the shutdown specification
FwdReqs == 1
\* Subscribe calls in one run of the bus specification
BusHandles == 2
\* requests of the slow-subscriber burst (more than the channel capacity)
MaxBurst == 66
\* calls of NewCertManager over one config directory
MaxStartups == 2
\* leaves minted in one run of the certificate specification
MaxMints == 2
\* exchanges in the list handed to BuildFromTraffic
MaxExchanges == 2
\* successful calls of Start in one run of the engine
MaxStarts == 3
\* calls of SetProjectID in one run of the engine
MaxSets == 3

\* the connection tasks and the control-plane clients of a run
Conns   == {1, 2}
Clients == {1, 2}
\* the forwarding, shutdown and burst specifications run one connection task
FwdTasks == {1}

\* make(chan []byte, 64)
ChanCap == 64

None == 0

(***************************************************************************)
(* State.                                                                  *)
(***************************************************************************)
VARIABLES
  running,    \* Proxy.running
  listener,   \* Proxy.listener: "nil", "open" or "closed"
  projectID,  \* Proxy.projectID
  subs,       \* Proxy.subs: the set of registered channels
  subsMu,     \* Proxy.subsMu: [w |-> the client holding Lock or None, r |-> the connections holding RLock]
  chans,      \* every channel made so far: handle -> [st, q]
  conn,       \* connection tasks: c -> [pc, tun, rid, todo, host, quiet, err]: host
              \* is the Host of the CONNECT request, quiet whether the client has
              \* gone silent, err the step of handleConnect that failed
  client,     \* control-plane callers of Subscribe/Unsubscribe: s -> [pc, ch] and, for the
              \* call of Unsubscribe in progress, the map and the closed channels at its start
  reqs,       \* the requests read so far (index = request instance id)
  store,      \* TrafficRepo: the ids of the rows inserted, in order
  \* history
  pub,        \* ids whose event was handed to the subscriber loop, in order
  rcvd,       \* handle -> the events its reader has received
  eos,        \* handles whose reader has seen end-of-stream
  before,     \* id -> the broadcasts that had completed when this one began
  live,       \* id -> the channels registered when this broadcast held the lock
  done,       \* ids whose broadcast has returned
  stopRet,    \* Stop() has returned and the engine was not started again
  preStop,    \* the handles created before that Stop()
  lateEnq,    \* handles of preStop that were sent an event by a broadcast begun after Stop() returned
  drops,      \* <<handle, id, n>>: the event id was dropped for handle, whose buffer held n
  panics,     \* run-time panics raised ("send on closed channel", ...)
  serve,      \* the accept loops started so far, in order: [ln |-> the state of the
              \* listener the loop was given, pc |-> "accept", "error" or "returned"]
  lastCall,   \* history: the last call of Start, Stop or Running: what it returned
              \* and the engine before and after it
  tagLog,     \* history: the arguments of the calls of SetProjectID, in the order
              \* in which they held p.mu
  \* the certificate manager
  caFile,     \* <configDir>/ca.pem: [st |-> "absent" | "bad" | "pem", key |-> the keypair certified]
  keyFile,    \* <configDir>/ca-key.pem: [st, key], and its permission bits in keyMode
  keyMode,
  cms,        \* process -> its CertManager: [st |-> "none" | "live", caCert, caKey, caTLS]
  certCache,  \* process -> CertManager.certCache: host -> chain
  getc,       \* callers of GetCertificate: g -> [pc, proc, host, cert]
  issued,     \* history: [proc, host, chain] of every successful GetCertificate
  mintErrs,   \* history: [proc, host] of every failed GetCertificate
  startLog,   \* history: what each NewCertManager did
  nextKey,    \* keypairs generated so far + 1
  nextSerial, \* leaves minted so far + 1
  \* schema inference
  exch,       \* the captured exchanges handed to BuildFromTraffic
  run         \* invocation -> [st, input, rev, schema]: the list as passed, the
              \* iteration order of the maps, and the schema returned

proxyVars == <<running, listener, projectID>>
busVars   == <<subs, subsMu, chans>>
histVars  == <<pub, rcvd, eos, before, live, done, stopRet, preStop, lateEnq, drops, panics>>
certVars  == <<caFile, keyFile, keyMode, cms, certCache, getc, issued, mintErrs,
               startLog, nextKey, nextSerial>>
\* what the proxy's actions leave alone
inferVars == <<exch, run>>
lifeVars  == <<serve, lastCall, tagLog>>
otherVars == <<certVars, inferVars, lifeVars>>
vars == <<running, listener, projectID, subs, subsMu, chans, conn, client, reqs,
          store, pub, rcvd, eos, before, live, done, stopRet, preStop, lateEnq, drops, panics,
          caFile, keyFile, keyMode, cms, certCache, getc, issued, mintErrs,
          startLog, nextKey, nextSerial, exch, run, serve, lastCall, tagLog>>

\* the channels made so far
Made == DOMAIN chans

(***************************************************************************)
(* Requests.  A request is described by what the recogniser looks at.      *)
(***************************************************************************)
\* strings.ToLower(r.URL.Path)
ToLower(path) ==
  CASE path = "/GraphQL" -> "/graphql"
    [] path = "/API/GQL" -> "/api/gql"
    [] OTHER -> path

\* strings.Contains(path, "graphql") || strings.Contains(path, "gql")
ContainsGraphql(path) == path \in {"/graphql", "/api/gql", "/v1/graphql"}

\* body kinds of a request
\*   "single"    {"query":"{ me { id } }"}
\*   "noquery"   {"foo":1}
\*   "batch"     [{"query":"{ me { id } }"}]
\*   "batchnoq"  [{"foo":1}]
\*   "emptyarr"  []
\*   "garbage"   not JSON
\*   "readerr"   the body cannot be read to its end
\*   "none"      no body
Req(method, path, qparam, vparam, ct, body) ==
  [method |-> method, path |-> path, qparam |-> qparam, vparam |-> vparam,
   ct |-> ct, body |-> body]

ScenarioA == Req("POST", "/graphql", "", "", "application/json", "single")
ScenarioB == Req("GET", "/api/gql", "{u{id}}", "", "", "none")
ScenarioC == Req("POST", "/v1/rest", "", "", "application/json", "noquery")

Requests ==
  { ScenarioA, ScenarioB, ScenarioC,
    Req("GET",  "/index.html", "", "", "", "none"),
    Req("GET",  "/api", "{u{id}}", "bad", "", "none"),
    Req("GET",  "/GraphQL", "", "", "", "none"),
    Req("POST", "/v1/rest", "", "", "application/json; charset=utf-8", "batch"),
    Req("POST", "/v1/rest", "", "", "application/json", "batchnoq"),
    Req("POST", "/v1/rest", "", "", "application/json", "emptyarr"),
    Req("POST", "/v1/rest", "", "", "text/plain", "single"),
    Req("POST", "/API/GQL", "", "", "text/plain", "garbage"),
    Req("POST", "/graphql", "", "", "application/json", "readerr"),
    Req("PUT",  "/graphql", "", "", "text/plain", "single") }

\* strings.Contains(ct, "application/json")
IsJSONContentType(ct) == ct \in {"application/json", "application/json; charset=utf-8"}

IsGraphQLRequest(r) ==
  \/ ContainsGraphql(ToLower(r.path))
  \/ r.method = "GET" /\ r.qparam # ""
  \/ r.method = "POST" /\ IsJSONContentType(r.ct)

\* a decoded payload; nil is [nil |-> TRUE, ...]
Payload(query, variables) == [nil |-> FALSE, Query |-> query, Variables |-> variables]
NilPayload == [nil |-> TRUE, Query |-> "", Variables |-> "none"]

ExtractGraphQLPayload(r) ==
  IF r.method = "GET"
  THEN Payload(r.qparam, IF r.vparam # "" THEN r.vparam ELSE "none")
  ELSE CASE r.body = "readerr"  -> NilPayload
         [] r.body = "single"   -> Payload("{ me { id } }", "none")
         [] r.body = "batch"    -> Payload("{ me { id } }", "none")
         [] r.body = "batchnoq" -> Payload("", "none")
         [] OTHER               -> NilPayload

\* the body handed to the upstream call: after a failed read the request keeps
\* its closed body
ForwardedBody(r) ==
  IF IsGraphQLRequest(r) /\ r.method # "GET" /\ r.body = "readerr" THEN "closed" ELSE r.body

\* a capture condition that forgets the query check
ShouldCapture_anyPayload(isGQL, payload) == isGQL /\ ~payload.nil

\* forwardAndCapture's condition for captureTraffic
ShouldCapture(isGQL, payload) == isGQL /\ ~payload.nil /\ payload.Query # ""

\* json.Marshal(req) fails when a json.RawMessage field does not hold valid JSON
\* (ResponseBody and Variables are json.RawMessage with omitempty)
ValidRaw(raw) == raw \in {"none", "empty", "json"}
MarshalOK(variables, respBody) == ValidRaw(variables) /\ ValidRaw(respBody)

\* response bodies of the upstream
RespBodies == {"json", "empty", "html"}

(***************************************************************************)
(* Channels.                                                               *)
(***************************************************************************)
\* make(chan []byte, 64)
MakeChan == [st |-> "open", q |-> <<>>]

\* a send into a buffer without capacity limit
ChanSend_unbounded(ch, data) == [ch EXCEPT !.q = Append(@, data)]

\* a send that puts the event at the front of the buffer
ChanSend_front(ch, data) ==
  IF Len(ch.q) < ChanCap THEN [ch EXCEPT !.q = <<data>> \o @] ELSE ch

\* the non-blocking send of broadcast's select: the channel after the send
ChanSend(ch, data) ==
  IF Len(ch.q) < ChanCap THEN [ch EXCEPT !.q = Append(@, data)] ELSE ch

\* what broadcast's loop ranges over: the registered channels
BroadcastTargets == subs

(***************************************************************************)
(* Engine lifecycle (Proxy.Start / Proxy.Stop), each under p.mu.           *)
(***************************************************************************)
connIdle == [pc |-> "idle", tun |-> FALSE, rid |-> None, todo |-> {}, host |-> "",
             quiet |-> FALSE, err |-> ""]
clientIdle == [pc |-> "idle", ch |-> None, reg |-> FALSE, subs0 |-> {}, closed0 |-> {}]

\* the channels closed so far
Closed == {h \in DOMAIN chans : chans[h].st = "closed"}

\* what the callers of the lifecycle can see of the engine: the running flag,
\* the listener held, and the listeners bound and accept loops started so far
Engine == [running |-> running, listener |-> listener, loops |-> serve]

NoCall == [op |-> "none", ret |-> "", pre |-> <<>>, post |-> <<>>]

\* the error Start returns: ok is whether net.Listen succeeds
StartError_noGuard(ok) == IF ~ok THEN "listen" ELSE "nil"

StartError(ok) ==
  IF running THEN "already running" ELSE IF ~ok THEN "listen" ELSE "nil"

\* Start, under p.mu: binds the listener and starts the accept loop on it
Start(ok) ==
  /\ IF StartError(ok) # "nil"
     THEN UNCHANGED <<running, listener, serve, stopRet, preStop>>
     ELSE /\ running' = TRUE
          /\ listener' = "open"
          /\ serve' = Append(serve, [ln |-> "open", pc |-> "accept"])
          /\ stopRet' = FALSE
          /\ preStop' = {}
  /\ lastCall' = [op |-> "Start", ret |-> StartError(ok), pre |-> Engine, post |-> Engine']
  /\ UNCHANGED <<certVars, inferVars, projectID, tagLog, busVars, conn, client, reqs,
                 store, pub, rcvd, eos, before, live, done, lateEnq, drops, panics>>

\* Stop, under p.mu: p.listener is the listener of the last loop started
Stop ==
  /\ IF ~running
     THEN UNCHANGED <<running, listener, serve, stopRet, preStop>>
     ELSE /\ running' = FALSE
          /\ listener' = IF listener # "nil" THEN "closed" ELSE listener
          /\ serve' = IF listener # "nil"
                      THEN [serve EXCEPT ![Len(serve)].ln = "closed"] ELSE serve
          /\ stopRet' = TRUE
          /\ preStop' = Made
  /\ lastCall' = [op |-> "Stop", ret |-> "nil", pre |-> Engine, post |-> Engine']
  /\ UNCHANGED <<certVars, inferVars, projectID, tagLog, busVars, conn, client, reqs,
                 store, pub, rcvd, eos, before, live, done, lateEnq, drops, panics>>

\* Running, under p.mu
Running ==
  /\ lastCall' = [op |-> "Running", ret |-> IF running THEN "true" ELSE "false",
                  pre |-> Engine, post |-> Engine]
  /\ UNCHANGED <<certVars, inferVars, serve, tagLog, proxyVars, busVars, conn, client,
                 reqs, store, histVars>>

\* serve: ln.Accept() fails because the loop's listener is closed
serve_error(l) ==
  /\ l \in DOMAIN serve
  /\ serve[l].pc = "accept"
  /\ serve[l].ln = "closed"
  /\ serve' = [serve EXCEPT ![l].pc = "error"]
  /\ UNCHANGED <<certVars, inferVars, lastCall, tagLog, proxyVars, busVars, conn, client,
                 reqs, store, histVars>>

\* serve: after the error, if !p.Running() { return }; otherwise the error is
\* logged and the loop calls Accept again
serve_check(l) ==
  /\ l \in DOMAIN serve
  /\ serve[l].pc = "error"
  /\ serve' = [serve EXCEPT ![l].pc = IF ~running THEN "returned" ELSE "accept"]
  /\ UNCHANGED <<certVars, inferVars, lastCall, tagLog, proxyVars, busVars, conn, client,
                 reqs, store, histVars>>

\* SetProjectID, under p.mu
SetProjectID(id) ==
  /\ projectID' = id
  /\ tagLog' = Append(tagLog, id)
  /\ UNCHANGED <<certVars, inferVars, serve, lastCall, running, listener, busVars, conn,
                 client, reqs, store, histVars>>

(***************************************************************************)
(* Subscribe / Unsubscribe, statement by statement.                        *)
(***************************************************************************)
LockFree == subsMu.w = None /\ subsMu.r = {}

\* ch := make(chan []byte, 64)
Subscribe_make(s) ==
  /\ client[s].pc = "idle"
  /\ LET h == Cardinality(Made) + 1 IN
       /\ chans' = chans @@ (h :> MakeChan)
       /\ rcvd' = rcvd @@ (h :> <<>>)
       /\ client' = [client EXCEPT ![s].pc = "sub_lock", ![s].ch = h]
  /\ UNCHANGED <<otherVars, proxyVars, subs, subsMu, conn, reqs, store,
                 pub, eos, before, live, done, stopRet, preStop, lateEnq, drops, panics>>

\* p.subsMu.Lock()
Subscribe_lock(s) ==
  /\ client[s].pc = "sub_lock"
  /\ LockFree
  /\ subsMu' = [subsMu EXCEPT !.w = s]
  /\ client' = [client EXCEPT ![s].pc = "sub_put"]
  /\ UNCHANGED <<otherVars, proxyVars, subs, chans, conn, reqs, store, histVars>>

\* p.subs[ch] = struct{}{}
Subscribe_put(s) ==
  /\ client[s].pc = "sub_put"
  /\ subs' = subs \cup {client[s].ch}
  /\ client' = [client EXCEPT ![s].pc = "sub_unlock"]
  /\ UNCHANGED <<otherVars, proxyVars, subsMu, chans, conn, reqs, store, histVars>>

\* p.subsMu.Unlock(); return ch
Subscribe_unlock(s) ==
  /\ client[s].pc = "sub_unlock"
  /\ subsMu' = [subsMu EXCEPT !.w = None]
  /\ client' = [client EXCEPT ![s] = clientIdle]
  /\ UNCHANGED <<otherVars, proxyVars, subs, chans, conn, reqs, store, histVars>>

\* Unsubscribe(ch) is called with any channel the caller holds; p.subsMu.Lock()
Unsubscribe_lock(s, h) ==
  /\ client[s].pc = "idle"
  /\ h \in Made
  /\ LockFree
  /\ subsMu' = [subsMu EXCEPT !.w = s]
  /\ client' = [client EXCEPT ![s] = [pc |-> "unsub_find", ch |-> h, reg |-> h \in subs,
                                       subs0 |-> subs, closed0 |-> Closed]]
  /\ UNCHANGED <<otherVars, proxyVars, subs, chans, conn, reqs, store, histVars>>

\* an Unsubscribe that closes the channel but leaves it in the map
UnsubDelete_kept(h) == subs

\* the map after delete(p.subs, k)
UnsubDelete(h) == subs \ {h}

\* for k := range p.subs { if recv == ch { delete(p.subs, k) ...
Unsubscribe_find(s) ==
  /\ client[s].pc = "unsub_find"
  /\ IF client[s].ch \in subs
     THEN /\ subs' = UnsubDelete(client[s].ch)
          /\ client' = [client EXCEPT ![s].pc = "unsub_close"]
     ELSE /\ subs' = subs
          /\ client' = [client EXCEPT ![s].pc = "unsub_unlock"]
  /\ UNCHANGED <<otherVars, proxyVars, subsMu, chans, conn, reqs, store, histVars>>

\* close(k); return
Unsubscribe_close(s) ==
  /\ client[s].pc = "unsub_close"
  /\ LET h == client[s].ch IN
       IF chans[h].st = "closed"
       THEN /\ panics' = panics \cup {"close of closed channel"}
            /\ chans' = chans
       ELSE /\ chans' = [chans EXCEPT ![h].st = "closed"]
            /\ panics' = panics
  /\ client' = [client EXCEPT ![s].pc = "unsub_unlock"]
  /\ UNCHANGED <<otherVars, proxyVars, subs, subsMu, conn, reqs, store,
                 pub, rcvd, eos, before, live, done, stopRet, preStop, lateEnq, drops>>

\* the deferred p.subsMu.Unlock()
Unsubscribe_unlock(s) ==
  /\ client[s].pc = "unsub_unlock"
  /\ subsMu' = [subsMu EXCEPT !.w = None]
  /\ client' = [client EXCEPT ![s] = clientIdle]
  /\ UNCHANGED <<otherVars, proxyVars, subs, chans, conn, reqs, store, histVars>>

\* a reader's receive on its handle: the next buffered event, or end-of-stream
\* once the channel is closed and drained
Recv(h) ==
  /\ h \in Made
  /\ \/ /\ chans[h].q # <<>>
        /\ rcvd' = [rcvd EXCEPT ![h] = Append(@, Head(chans[h].q))]
        /\ chans' = [chans EXCEPT ![h].q = Tail(@)]
        /\ eos' = eos
     \/ /\ chans[h].q = <<>>
        /\ chans[h].st = "closed"
        /\ h \notin eos
        /\ eos' = eos \cup {h}
        /\ UNCHANGED <<rcvd, chans>>
  /\ UNCHANGED <<otherVars, proxyVars, subs, subsMu, conn, client, reqs, store,
                 pub, before, live, done, stopRet, preStop, lateEnq, drops, panics>>

(***************************************************************************)
(* Connection tasks: serve -> handleConnection -> handleConnect/handleHTTP *)
(* -> forwardAndCapture -> captureTraffic -> broadcast.                    *)
(***************************************************************************)
\* a request instance: the request as read, the URL it is given, and what
\* happened to it (tag: the capture's ProjectID, nil so far; sets: -1 until
\* captureTraffic reads projID)
NewReq(c, r, url) ==
  [conn |-> c, req |-> r, url |-> url, isGQL |-> FALSE, query |-> "", variables |-> "none",
   fwd |-> "no", up |-> "no", resp |-> "none", wrote |-> "nothing", tag |-> <<>>,
   sets |-> -1, save |-> "no", late |-> FALSE]

Rid(c) == conn[c].rid

\* where a task continues when forwardAndCapture returns: the tunnel loop reads
\* the next request, a plain-HTTP task ends (deferred conn.Close())
Return(c) ==
  [conn[c] EXCEPT !.pc = IF conn[c].tun THEN "inner" ELSE "closed",
                  !.rid = None, !.todo = {}]

\* serve: conn, err := ln.Accept(); go p.handleConnection(conn)
Accept(c) ==
  /\ listener = "open"
  /\ conn[c].pc = "idle"
  /\ conn' = [conn EXCEPT ![c].pc = "first"]
  /\ UNCHANGED <<otherVars, proxyVars, busVars, client, reqs, store, histVars>>

\* the host authorities of the CONNECT targets
Hosts == {"a.test", "a.test:443", "10.0.0.1:8443"}
\* those of the certificate specification
CertHosts == {"a.test:443", "10.0.0.1"}

\* net.SplitHostPort: the host without its port, or the host as given
StripPort(host) ==
  CASE host = "a.test:443"    -> "a.test"
    [] host = "10.0.0.1:8443" -> "10.0.0.1"
    [] OTHER                  -> host

\* the reads of a connection task that are given a deadline: only
\* tlsConn.SetReadDeadline before each read of the tunnel loop
HasDeadline(stage) == stage = "inner"

\* a read of connection c at the given stage can return: with data (ok) only
\* when the client sends; with an error when the client closes or sends
\* garbage or, under a deadline, when the deadline passes
ReadReturns(c, stage, ok) ==
  IF ok THEN ~conn[c].quiet ELSE ~conn[c].quiet \/ HasDeadline(stage)

\* the client of connection c stops sending and leaves the connection open
goQuiet(c) ==
  /\ conn[c].pc \notin {"idle", "closed"}
  /\ ~conn[c].quiet
  /\ conn' = [conn EXCEPT ![c].quiet = TRUE]
  /\ UNCHANGED <<otherVars, proxyVars, busVars, client, reqs, store, histVars>>

\* the port a host authority names; 0 when it names none
PortOf(host) ==
  CASE host = "a.test:443"    -> 443
    [] host = "10.0.0.1:8443" -> 8443
    [] OTHER                  -> 0

\* p.client.Do(req): the address the transport connects to for req.URL, the
\* port of URL.Host or else the default port of the scheme
DialAddr(url) ==
  [host |-> StripPort(url.host),
   port |-> IF PortOf(url.host) # 0 THEN PortOf(url.host)
            ELSE IF url.scheme = "https" THEN 443 ELSE 80]

\* handleHTTP: req.URL.Scheme = "http", req.URL.Host = req.Host (the origin "x")
PlainURL == [scheme |-> "http", host |-> "x"]

\* handleConnect's loop: innerReq.URL.Scheme = "https"; innerReq.URL.Host is the
\* host of the CONNECT request's Host when net.SplitHostPort accepts it, the
\* Host as given otherwise
InnerURL(host) == [scheme |-> "https", host |-> StripPort(host)]

\* handleConnection: the first read yields a CONNECT request for host, another
\* request r, or fails; handleHTTP passes r to forwardAndCapture
handleConnection(c, first, r, host) ==
  /\ conn[c].pc = "first"
  /\ ReadReturns(c, "first", first # "error")
  /\ CASE first = "error" ->
            /\ conn' = [conn EXCEPT ![c].pc = "closed"]
            /\ reqs' = reqs
       [] first = "CONNECT" ->
            /\ conn' = [conn EXCEPT ![c].pc = "connect", ![c].host = host]
            /\ reqs' = reqs
       [] OTHER ->
            /\ reqs' = Append(reqs, NewReq(c, r, PlainURL))
            /\ conn' = [conn EXCEPT ![c].pc = "forward", ![c].rid = Len(reqs) + 1]
  /\ UNCHANGED <<otherVars, proxyVars, busVars, client, store, histVars>>

\* handleConnect: the 200 reply (ok: the write succeeds), then the call of
\* p.certMgr.GetCertificate(req.Host), whose steps are GetCertificate_load,
\* mintCert and GetCertificate_store with the task as caller
handleConnect(c, ok) ==
  /\ conn[c].pc = "connect"
  /\ conn' = [conn EXCEPT ![c].pc = IF ok THEN "getcert" ELSE "closed",
                          ![c].err = IF ok THEN "" ELSE "reply"]
  /\ UNCHANGED <<otherVars, proxyVars, busVars, client, reqs, store, histVars>>

\* handleConnect: tlsConn.Handshake(), which has no deadline; on an error the
\* task logs and returns (deferred conn.Close())
handleConnect_handshake(c, ok) ==
  /\ conn[c].pc = "handshake"
  /\ ReadReturns(c, "handshake", ok)
  /\ conn' = [conn EXCEPT ![c].pc = IF ok THEN "inner" ELSE "closed",
                          ![c].tun = ok,
                          ![c].err = IF ok THEN "" ELSE "handshake"]
  /\ UNCHANGED <<otherVars, proxyVars, busVars, client, reqs, store, histVars>>

\* the tunnel loop's http.ReadRequest: the next inner request r, or a read error
\* (close, timeout, malformed frame) that ends the task
readInner(c, ok, r) ==
  /\ conn[c].pc = "inner"
  /\ ReadReturns(c, "inner", ok)
  /\ IF ok
     THEN /\ reqs' = Append(reqs, NewReq(c, r, InnerURL(conn[c].host)))
          /\ conn' = [conn EXCEPT ![c].pc = "forward", ![c].rid = Len(reqs) + 1]
     ELSE /\ reqs' = reqs
          /\ conn' = [conn EXCEPT ![c].pc = "closed", ![c].tun = FALSE]
  /\ UNCHANGED <<otherVars, proxyVars, busVars, client, store, histVars>>

\* an upstream call whose error is ignored
UpstreamFailed_never(up) == FALSE

\* resp, err := p.client.Do(req); if err != nil
UpstreamFailed(up) == up = "error"

\* an exchange tagged with every value read, the empty string included
ProjectTag_always(projID) == <<projID>>

\* if projID != "" { captured.ProjectID = &projID }: the pointer is <<>> when nil
ProjectTag(projID) == IF projID # "" THEN <<projID>> ELSE <<>>

\* forwardAndCapture up to captureTraffic's Save: classify, extract, the
\* upstream call (up: "ok" or "error"), the reply to the client and, for a
\* capture, projID := p.projectID under p.mu (sets: the calls of SetProjectID
\* that had completed at that read)
forwardAndCapture(c, up, body) ==
  /\ conn[c].pc = "forward"
  /\ LET r       == reqs[Rid(c)].req
         isGQL   == IsGraphQLRequest(r)
         payload == IF isGQL THEN ExtractGraphQLPayload(r) ELSE NilPayload
         seen    == [reqs[Rid(c)] EXCEPT !.isGQL = isGQL, !.query = payload.Query,
                                         !.variables = payload.Variables,
                                         !.fwd = IF isGQL THEN ForwardedBody(r) ELSE r.body,
                                         !.up = up]
     IN IF UpstreamFailed(up)
        THEN /\ reqs' = [reqs EXCEPT ![Rid(c)] = [seen EXCEPT !.wrote = "502"]]
             /\ conn' = [conn EXCEPT ![c] = Return(c)]
        ELSE IF ShouldCapture(isGQL, payload)
        THEN /\ reqs' = [reqs EXCEPT ![Rid(c)] =
                           [seen EXCEPT !.resp = body, !.wrote = "response",
                                        !.tag = ProjectTag(projectID),
                                        !.sets = Len(tagLog)]]
             /\ conn' = [conn EXCEPT ![c].pc = "save"]
        ELSE /\ reqs' = [reqs EXCEPT ![Rid(c)] =
                           [seen EXCEPT !.resp = body, !.wrote = "response"]]
             /\ conn' = [conn EXCEPT ![c] = Return(c)]
  /\ UNCHANGED <<otherVars, proxyVars, busVars, client, store, histVars>>

\* a Save that puts the new row in front of the older ones
Save_front(rows, id, ok) == IF ok THEN <<id>> \o rows ELSE rows

\* the rows of the store after p.trafficRepo.Save(captured)
Save(rows, id, ok) == IF ok THEN Append(rows, id) ELSE rows

\* captureTraffic from Save on: Save, whose error is only logged, then
\* broadcast's data, err := json.Marshal(req); if err != nil { return }
captureTraffic(c, ok) ==
  /\ conn[c].pc = "save"
  /\ store' = Save(store, Rid(c), ok)
  /\ reqs' = [reqs EXCEPT ![Rid(c)].save = IF ok THEN "ok" ELSE "failed",
                          ![Rid(c)].late = stopRet]
  /\ IF MarshalOK(reqs[Rid(c)].variables, reqs[Rid(c)].resp)
     THEN /\ conn' = [conn EXCEPT ![c].pc = "rlock"]
          /\ before' = before @@ (Rid(c) :> done)
     ELSE /\ conn' = [conn EXCEPT ![c] = Return(c)]
          /\ before' = before
  /\ UNCHANGED <<otherVars, proxyVars, busVars, client,
                 pub, rcvd, eos, live, done, stopRet, preStop, lateEnq, drops, panics>>

\* a read lock that does not wait for the writer
RLockFree_noWait == TRUE

\* p.subsMu.RLock() waits for no writer
RLockFree == subsMu.w = None

\* broadcast: p.subsMu.RLock(); the loop starts over the registered channels
broadcast_RLock(c) ==
  /\ conn[c].pc = "rlock"
  /\ RLockFree
  /\ subsMu' = [subsMu EXCEPT !.r = @ \cup {c}]
  /\ conn' = [conn EXCEPT ![c].pc = "send", ![c].todo = BroadcastTargets]
  /\ pub' = Append(pub, Rid(c))
  /\ live' = live @@ (Rid(c) :> subs)
  /\ UNCHANGED <<otherVars, proxyVars, subs, chans, client, reqs, store,
                 rcvd, eos, before, done, stopRet, preStop, lateEnq, drops, panics>>

\* broadcast: one iteration of the loop, select { case ch <- data: default: }
broadcast_send(c, h) ==
  /\ conn[c].pc = "send"
  /\ h \in conn[c].todo
  /\ conn' = [conn EXCEPT ![c].todo = @ \ {h}]
  /\ IF chans[h].st = "closed"
     THEN /\ panics' = panics \cup {"send on closed channel"}
          /\ UNCHANGED <<chans, lateEnq, drops>>
     ELSE /\ chans' = [chans EXCEPT ![h] = ChanSend(@, Rid(c))]
          /\ lateEnq' = IF /\ stopRet /\ reqs[Rid(c)].late
                           /\ h \in preStop /\ chans'[h] # chans[h]
                        THEN lateEnq \cup {h} ELSE lateEnq
          /\ drops' = IF chans'[h] = chans[h]
                      THEN drops \cup {<<h, Rid(c), Len(chans[h].q)>>} ELSE drops
          /\ panics' = panics
  /\ UNCHANGED <<otherVars, proxyVars, subs, subsMu, client, reqs, store,
                 pub, rcvd, eos, before, live, done, stopRet, preStop>>

\* broadcast: the loop is over; the deferred p.subsMu.RUnlock()
broadcast_RUnlock(c) ==
  /\ conn[c].pc = "send"
  /\ conn[c].todo = {}
  /\ subsMu' = [subsMu EXCEPT !.r = @ \ {c}]
  /\ done' = done \cup {Rid(c)}
  /\ conn' = [conn EXCEPT ![c] = Return(c)]
  /\ UNCHANGED <<otherVars, proxyVars, subs, chans, client, reqs, store,
                 pub, rcvd, eos, before, live, stopRet, preStop, lateEnq, drops, panics>>

(***************************************************************************)
(* The certificate manager (internal/proxy/cert.go).                       *)
(* A keypair is a number; the CA certificate made for keypair k is         *)
(* identified by k.  A file is absent, holds something that does not       *)
(* parse ("bad": empty or cut short), or holds the PEM block for k.        *)
(***************************************************************************)
\* the processes that may run over one config directory, and the tasks that
\* call GetCertificate
Procs   == {1, 2}
Callers == {1, 2}
\* keypairs whose files a user may have left in the directory
UserKeys == {1, 2}

Absent   == [st |-> "absent", key |-> None]
Bad      == [st |-> "bad", key |-> None]
Pem(k)   == [st |-> "pem", key |-> k]
NoManager == [st |-> "none", caCert |-> None, caKey |-> None, caTLS |-> None]
callerIdle == [pc |-> "idle", proc |-> None, host |-> "", cert |-> <<>>]

\* fileExists: os.Stat succeeds
fileExists(f) == f.st # "absent"

\* loadCA: both files are read and parsed; any failure is returned.  Nothing
\* checks that the key belongs to the certificate.
loadCA(ca, key, readOK) ==
  IF readOK /\ ca.st = "pem" /\ key.st = "pem"
  THEN [st |-> "live", caCert |-> ca.key, caKey |-> key.key, caTLS |-> ca.key]
  ELSE NoManager

\* the points at which generateCA can return an error (or the process can die)
GenFailures == {"none", "keygen", "create", "encode", "certclose",
                "keyopen", "keyencode", "keyclose"}

\* generateCA with the fresh keypair k: the two files, the key file's mode and
\* the manager it leaves
generateCA(ca, key, mode, k, fail) ==
  LET wroteCert == fail \notin {"keygen", "create", "encode"}
      openedKey == wroteCert /\ fail # "keyopen"
      wroteKey  == openedKey /\ fail # "keyencode"
  IN [ca   |-> IF fail \in {"keygen", "create"} THEN ca
               ELSE IF fail = "encode" THEN Bad ELSE Pem(k),
      key  |-> IF ~openedKey THEN key ELSE IF wroteKey THEN Pem(k) ELSE Bad,
      \* O_CREATE with 0o600 sets the mode only of a file it creates
      mode |-> IF openedKey /\ ~fileExists(key) THEN "0600" ELSE mode,
      cm   |-> IF fail = "none"
               THEN [st |-> "live", caCert |-> k, caKey |-> k, caTLS |-> k]
               ELSE NoManager]

\* a NewCertManager that generates a CA at every startup
ShouldLoad_never(ca, key) == FALSE

\* NewCertManager's choice: load when both files exist, generate otherwise
ShouldLoad(ca, key) == fileExists(ca) /\ fileExists(key)

\* NewCertManager in process p; fail is where it fails, if it does
NewCertManager(p, fail) ==
  /\ cms[p].st = "none"
  /\ IF ShouldLoad(caFile, keyFile)
     THEN /\ fail \in {"none", "read"}
          /\ cms' = [cms EXCEPT ![p] = loadCA(caFile, keyFile, fail = "none")]
          /\ startLog' = Append(startLog,
               IF cms'[p].st = "live" THEN "loaded" ELSE "load failed")
          /\ UNCHANGED <<caFile, keyFile, keyMode, nextKey>>
     ELSE /\ fail \in GenFailures
          /\ LET gen == generateCA(caFile, keyFile, keyMode, nextKey, fail) IN
               /\ caFile' = gen.ca
               /\ keyFile' = gen.key
               /\ keyMode' = gen.mode
               /\ cms' = [cms EXCEPT ![p] = gen.cm]
          /\ nextKey' = IF fail = "keygen" THEN nextKey ELSE nextKey + 1
          /\ startLog' = Append(startLog,
               IF fail = "none" THEN "generated" ELSE "generate failed")
  /\ UNCHANGED <<certCache, getc, issued, mintErrs, nextSerial>>
  /\ UNCHANGED <<proxyVars, busVars, conn, client, reqs, store, histVars, inferVars, lifeVars>>

\* the DER of the CA certificate made for keypair k
CACert(k) == [kind |-> "ca", key |-> k]

\* a CreateCertificate that does not compare the signing key with the parent
CreateCertificate_noKeyCheck(serial, host, parent, priv, ok) ==
  IF ok
  THEN [kind |-> "leaf", serial |-> serial, host |-> host, issuer |-> parent,
        signer |-> priv]
  ELSE [kind |-> "error"]

\* x509.CreateCertificate(rand, template, parent, pub, priv): the leaf, issued in
\* the name of the parent and signed with priv; an error when the random source
\* fails or when priv is not the key of the parent certificate
CreateCertificate(serial, host, parent, priv, ok) ==
  IF ok /\ priv = parent
  THEN [kind |-> "leaf", serial |-> serial, host |-> host, issuer |-> parent,
        signer |-> priv]
  ELSE [kind |-> "error"]

\* the chain mintCert returns
Chain(leaf, caDER) == <<leaf, caDER>>

\* a handleConnect that goes on to the handshake whatever GetCertificate returns
Returned_goesOn(g, err) ==
  IF g \in Conns /\ conn[g].pc = "getcert"
  THEN [conn EXCEPT ![g].pc = "handshake", ![g].err = err]
  ELSE conn

\* the connection tasks after GetCertificate returned to caller g with the
\* given error ("" for none): when the caller is a connection task in
\* handleConnect, it goes on with the handshake or, on an error, logs it and
\* returns (deferred conn.Close())
Returned(g, err) ==
  IF g \in Conns /\ conn[g].pc = "getcert"
  THEN [conn EXCEPT ![g].pc = IF err = "" THEN "handshake" ELSE "closed", ![g].err = err]
  ELSE conn

\* GetCertificate up to the cache lookup: a hit returns the cached chain
GetCertificate_load(g, p, host) ==
  /\ getc[g].pc = "idle"
  /\ cms[p].st = "live"
  /\ LET h == StripPort(host) IN
       IF h \in DOMAIN certCache[p]
       THEN /\ issued' = issued \cup {[proc |-> p, host |-> h, chain |-> certCache[p][h]]}
            /\ getc' = getc
            /\ conn' = Returned(g, "")
       ELSE /\ getc' = [getc EXCEPT ![g] = [pc |-> "mint", proc |-> p, host |-> h,
                                            cert |-> <<>>]]
            /\ issued' = issued
            /\ conn' = conn
  /\ UNCHANGED <<caFile, keyFile, keyMode, cms, certCache, mintErrs, startLog,
                 nextKey, nextSerial>>
  /\ UNCHANGED <<proxyVars, busVars, client, reqs, store, histVars, inferVars, lifeVars>>

\* mintCert: ok is whether key and serial generation succeed; an error is
\* returned to GetCertificate's caller and nothing is stored
mintCert(g, ok) ==
  /\ getc[g].pc = "mint"
  /\ LET cm   == cms[getc[g].proc]
         leaf == CreateCertificate(nextSerial, getc[g].host, cm.caCert, cm.caKey, ok)
     IN IF leaf.kind = "error"
        THEN /\ getc' = [getc EXCEPT ![g] = callerIdle]
             /\ mintErrs' = mintErrs \cup {[proc |-> getc[g].proc, host |-> getc[g].host]}
             /\ nextSerial' = nextSerial
             /\ conn' = Returned(g, "cert")
        ELSE /\ getc' = [getc EXCEPT ![g].pc = "store",
                                     ![g].cert = Chain(leaf, CACert(cm.caTLS))]
             /\ mintErrs' = mintErrs
             /\ nextSerial' = nextSerial + 1
             /\ conn' = conn
  /\ UNCHANGED <<caFile, keyFile, keyMode, cms, certCache, issued, startLog, nextKey>>
  /\ UNCHANGED <<proxyVars, busVars, client, reqs, store, histVars, inferVars, lifeVars>>

\* the cache after cm.certCache.Store(host, cert)
CacheStore(cache, host, cert) ==
  [h \in DOMAIN cache \cup {host} |-> IF h = host THEN cert ELSE cache[h]]

\* GetCertificate: cm.certCache.Store(host, cert); return cert, nil
GetCertificate_store(g) ==
  /\ getc[g].pc = "store"
  /\ LET p == getc[g].proc IN
       /\ certCache' = [certCache EXCEPT ![p] = CacheStore(@, getc[g].host, getc[g].cert)]
       /\ issued' = issued \cup {[proc |-> p, host |-> getc[g].host, chain |-> getc[g].cert]}
  /\ getc' = [getc EXCEPT ![g] = callerIdle]
  /\ conn' = Returned(g, "")
  /\ UNCHANGED <<caFile, keyFile, keyMode, cms, mintErrs, startLog, nextKey, nextSerial>>
  /\ UNCHANGED <<proxyVars, busVars, client, reqs, store, histVars, inferVars, lifeVars>>

\* the certificate manager before any process has started, over an empty
\* config directory
CertDown ==
  /\ caFile = Absent
  /\ keyFile = Absent
  /\ keyMode = "none"
  /\ cms = [p \in Procs |-> NoManager]
  /\ certCache = [p \in Procs |-> <<>>]
  /\ getc = [g \in Callers |-> callerIdle]
  /\ issued = {}
  /\ mintErrs = {}
  /\ startLog = <<>>
  /\ nextKey = Cardinality(UserKeys) + 1
  /\ nextSerial = 1

\* the certificate manager of the proxy's process after main's
\* NewCertManager generated a CA in an empty config directory; main exits
\* (log.Fatalf) when NewCertManager fails, so NewProxy only ever gets this one
ProxyProc == 1

CertLive ==
  /\ caFile = Pem(Cardinality(UserKeys) + 1)
  /\ keyFile = Pem(Cardinality(UserKeys) + 1)
  /\ keyMode = "0600"
  /\ cms = [p \in Procs |->
              IF p = ProxyProc
              THEN generateCA(Absent, Absent, "none", Cardinality(UserKeys) + 1, "none").cm
              ELSE NoManager]
  /\ certCache = [p \in Procs |-> <<>>]
  /\ getc = [g \in Callers |-> callerIdle]
  /\ issued = {}
  /\ mintErrs = {}
  /\ startLog = <<"generated">>
  /\ nextKey = Cardinality(UserKeys) + 2
  /\ nextSerial = 1

\* handleConnect's call of p.certMgr.GetCertificate(req.Host)
handleConnect_GetCertificate(c) ==
  /\ conn[c].pc = "getcert"
  /\ GetCertificate_load(c, ProxyProc, conn[c].host)

\* the states in which a config directory may be found at the first startup:
\* empty, or holding files of a user or of an earlier installation
DirStates == {Absent, Bad} \cup {Pem(k) : k \in UserKeys}

InitCert ==
  /\ caFile \in DirStates
  /\ keyFile \in DirStates
  /\ keyMode \in (IF fileExists(keyFile) THEN {"0600", "0644"} ELSE {"none"})
  /\ cms = [p \in Procs |-> NoManager]
  /\ certCache = [p \in Procs |-> <<>>]
  /\ getc = [g \in Callers |-> callerIdle]
  /\ issued = {}
  /\ mintErrs = {}
  /\ startLog = <<>>
  /\ nextKey = Cardinality(UserKeys) + 1
  /\ nextSerial = 1

(***************************************************************************)
(* Schema inference from traffic (internal/inference, internal/parser).    *)
(* A name is the sequence of its characters.  A JSON value is a record     *)
(* [k, s, elems, fields]: its kind, the text of a string, the elements of  *)
(* an array, the members of an object.                                     *)
(***************************************************************************)
LowerChars == <<"a", "b", "c", "d", "e", "f", "g", "h", "i", "j", "k", "l", "m",
                "n", "o", "p", "q", "r", "s", "t", "u", "v", "w", "x", "y", "z">>
UpperChars == <<"A", "B", "C", "D", "E", "F", "G", "H", "I", "J", "K", "L", "M",
                "N", "O", "P", "Q", "R", "S", "T", "U", "V", "W", "X", "Y", "Z">>

\* strings.ToUpper / strings.ToLower on one character
UpperChar(c) ==
  IF \E i \in DOMAIN LowerChars : LowerChars[i] = c
  THEN UpperChars[CHOOSE i \in DOMAIN LowerChars : LowerChars[i] = c]
  ELSE c

LowerChar(c) ==
  IF \E i \in DOMAIN UpperChars : UpperChars[i] = c
  THEN LowerChars[CHOOSE i \in DOMAIN UpperChars : UpperChars[i] = c]
  ELSE c

LowerName(s) == [i \in DOMAIN s |-> LowerChar(s[i])]

\* strings.HasSuffix
HasSuffix(s, suf) ==
  /\ Len(s) >= Len(suf)
  /\ SubSeq(s, Len(s) - Len(suf) + 1, Len(s)) = suf

isIDField(name) ==
  LET lower == LowerName(name) IN
    \/ lower = <<"i", "d">>
    \/ HasSuffix(lower, <<"i", "d">>)
    \/ HasSuffix(lower, <<"_", "i", "d">>)

pascalCase(s) ==
  IF s = <<>> THEN <<"U", "n", "k", "n", "o", "w", "n">>
  ELSE <<UpperChar(s[1])>> \o Tail(s)

singularize(s) ==
  CASE HasSuffix(s, <<"i", "e", "s">>) /\ Len(s) > 4 -> SubSeq(s, 1, Len(s) - 3) \o <<"y">>
    [] HasSuffix(s, <<"s", "e", "s">>) /\ Len(s) > 4 -> SubSeq(s, 1, Len(s) - 2)
    [] HasSuffix(s, <<"s">>) /\ Len(s) > 3           -> SubSeq(s, 1, Len(s) - 1)
    [] OTHER                                         -> s

\* The names the code writes and the inputs hold, as sequences of characters:
\* type and kind names, JSON member names, and the names in the responses.
Name ==
  [String |-> <<"S", "t", "r", "i", "n", "g">>,
   ID |-> <<"I", "D">>,
   Boolean |-> <<"B", "o", "o", "l", "e", "a", "n">>,
   Int |-> <<"I", "n", "t">>,
   Float |-> <<"F", "l", "o", "a", "t">>,
   Query |-> <<"Q", "u", "e", "r", "y">>,
   Mutation |-> <<"M", "u", "t", "a", "t", "i", "o", "n">>,
   Subscription |-> <<"S", "u", "b", "s", "c", "r", "i", "p", "t", "i", "o", "n">>,
   _placeholder |-> <<"_", "p", "l", "a", "c", "e", "h", "o", "l", "d", "e", "r">>,
   data |-> <<"d", "a", "t", "a">>,
   __schema |-> <<"_", "_", "s", "c", "h", "e", "m", "a">>,
   types |-> <<"t", "y", "p", "e", "s">>,
   name |-> <<"n", "a", "m", "e">>,
   kind |-> <<"k", "i", "n", "d">>,
   fields |-> <<"f", "i", "e", "l", "d", "s">>,
   type |-> <<"t", "y", "p", "e">>,
   ofType |-> <<"o", "f", "T", "y", "p", "e">>,
   queryType |-> <<"q", "u", "e", "r", "y", "T", "y", "p", "e">>,
   mutationType |-> <<"m", "u", "t", "a", "t", "i", "o", "n", "T", "y", "p", "e">>,
   subscriptionType |-> <<"s", "u", "b", "s", "c", "r", "i", "p", "t", "i", "o", "n", "T", "y", "p", "e">>,
   OBJECT |-> <<"O", "B", "J", "E", "C", "T">>,
   SCALAR |-> <<"S", "C", "A", "L", "A", "R">>,
   LIST |-> <<"L", "I", "S", "T">>,
   user |-> <<"u", "s", "e", "r">>,
   id |-> <<"i", "d">>,
   email |-> <<"e", "m", "a", "i", "l">>,
   posts |-> <<"p", "o", "s", "t", "s">>,
   title |-> <<"t", "i", "t", "l", "e">>,
   me |-> <<"m", "e">>,
   User |-> <<"U", "s", "e", "r">>,
   Root |-> <<"R", "o", "o", "t">>,
   Post |-> <<"P", "o", "s", "t">>,
   query |-> <<"q", "u", "e", "r", "y">>,
   analyses |-> <<"a", "n", "a", "l", "y", "s", "e", "s">>,
   categories |-> <<"c", "a", "t", "e", "g", "o", "r", "i", "e", "s">>,
   bus |-> <<"b", "u", "s">>,
   Me |-> <<"M", "e">>]

\* schema.TypeRef
NoRef == [Kind |-> "none"]
scalarRef(name) == [Kind |-> "SCALAR", Name |-> name, OfType |-> NoRef]
objectRef(name) == [Kind |-> "OBJECT", Name |-> name, OfType |-> NoRef]
listRef(of)     == [Kind |-> "LIST", Name |-> <<>>, OfType |-> of]
unknownRef      == scalarRef(Name.String)

\* schema.Field and schema.Type
Field(name, ref)  == [Name |-> name, Type |-> ref]
Type(name, kind, fields) == [Name |-> name, Kind |-> kind, Fields |-> fields]

\* The order in which a range over a map visits a set of keys.  Go leaves it
\* unspecified; an invocation visits every map either in one fixed order of
\* the keys (rev = FALSE) or in the opposite one.
RECURSIVE SetToSeq(_)
SetToSeq(S) ==
  IF S = {} THEN <<>>
  ELSE LET x == CHOOSE y \in S : TRUE IN <<x>> \o SetToSeq(S \ {x})

Reverse(q) == [i \in DOMAIN q |-> q[Len(q) + 1 - i]]

Iter(S, rev) == IF rev THEN Reverse(SetToSeq(S)) ELSE SetToSeq(S)

\* the values of the map m in iteration order
ValuesOf(m, rev) == LET ks == Iter(DOMAIN m, rev) IN [i \in DOMAIN ks |-> m[ks[i]]]

\* the map after fieldMap[f.Name] = f for every f of fields
FieldMapOf(fields) ==
  [n \in {fields[i].Name : i \in DOMAIN fields} |->
     fields[CHOOSE i \in DOMAIN fields :
              fields[i].Name = n /\ \A j \in DOMAIN fields : fields[j].Name = n => j <= i]]

\* the map after, for every f of fields, if f.Name is not in m, m[f.Name] = f
AddMissing(m, fields) ==
  [n \in DOMAIN m \cup {fields[i].Name : i \in DOMAIN fields} |->
     IF n \in DOMAIN m THEN m[n]
     ELSE fields[CHOOSE i \in DOMAIN fields :
                   fields[i].Name = n /\ \A j \in DOMAIN fields : fields[j].Name = n => i <= j]]

\* a merge that keeps only the fields of the first definition
mergeType_firstOnly(a, b, rev) == a

\* mergeType: the fields of a, then those of b whose name a does not have; the
\* merged list is a range over fieldMap
mergeType(a, b, rev) ==
  LET fieldMap == AddMissing(FieldMapOf(a.Fields), b.Fields)
  IN [a EXCEPT !.Fields = ValuesOf(fieldMap, rev)]

\* JSON values
JNull      == [k |-> "null", s |-> <<>>, elems |-> <<>>, fields |-> <<>>]
JStr(s)    == [k |-> "string", s |-> s, elems |-> <<>>, fields |-> <<>>]
JBool      == [k |-> "bool", s |-> <<>>, elems |-> <<>>, fields |-> <<>>]
JInt       == [k |-> "int", s |-> <<>>, elems |-> <<>>, fields |-> <<>>]
JFloat     == [k |-> "float", s |-> <<>>, elems |-> <<>>, fields |-> <<>>]
JArr(es)   == [k |-> "array", s |-> <<>>, elems |-> es, fields |-> <<>>]
JObj(fs)   == [k |-> "object", s |-> <<>>, elems |-> <<>>, fields |-> fs]

\* a member of a JSON object; a missing member decodes like null
Member(v, n) == IF v.k = "object" /\ n \in DOMAIN v.fields THEN v.fields[n] ELSE JNull

\* a response body: empty, text that is not JSON, or a JSON value
Body(raw, v) == [raw |-> raw, v |-> v]

\* bytes.Contains(body, "__schema"): the marker is a member name or a string
RECURSIVE HasMarker(_)
HasMarker(v) ==
  \/ v.k = "string" /\ v.s = Name.__schema
  \/ v.k = "array" /\ \E i \in DOMAIN v.elems : HasMarker(v.elems[i])
  \/ v.k = "object" /\ \E n \in DOMAIN v.fields : n = Name.__schema \/ HasMarker(v.fields[n])

\* inferTypeRef: the TypeRef of a JSON value and the type map with the object
\* types found in it; inferMembers is its loop over the members of an object
RECURSIVE inferTypeRef(_, _, _, _)
RECURSIVE inferMembers(_, _, _, _, _)
inferMembers(obj, keys, types, fields, rev) ==
  IF keys = <<>> THEN [fields |-> fields, types |-> types]
  ELSE LET r == inferTypeRef(Head(keys), obj[Head(keys)], types, rev)
       IN inferMembers(obj, Tail(keys), r.types,
                       Append(fields, Field(Head(keys), r.ref)), rev)

inferTypeRef(fieldName, value, types, rev) ==
  CASE value.k = "null"   -> [ref |-> unknownRef, types |-> types]
    [] value.k = "string" ->
         [ref |-> IF isIDField(fieldName) THEN scalarRef(Name.ID) ELSE scalarRef(Name.String),
          types |-> types]
    [] value.k = "bool"   -> [ref |-> scalarRef(Name.Boolean), types |-> types]
    [] value.k = "array"  ->
         LET nonNull == {i \in DOMAIN value.elems : value.elems[i].k # "null"} IN
           IF nonNull = {} THEN [ref |-> listRef(unknownRef), types |-> types]
           ELSE LET first == CHOOSE i \in nonNull : \A j \in nonNull : i <= j
                    r == inferTypeRef(singularize(fieldName), value.elems[first], types, rev)
                IN [ref |-> listRef(r.ref), types |-> r.types]
    [] value.k = "object" ->
         LET typeName == pascalCase(fieldName)
             r == inferMembers(value.fields, Iter(DOMAIN value.fields, rev), types, <<>>, rev)
             t == Type(typeName, "OBJECT", r.fields)
         IN [ref |-> objectRef(typeName),
             types |-> IF typeName \in DOMAIN r.types
                       THEN [r.types EXCEPT ![typeName] = mergeType(@, t, rev)]
                       ELSE r.types @@ (typeName :> t)]
    [] value.k = "float"  -> [ref |-> scalarRef(Name.Float), types |-> types]
    [] OTHER              -> [ref |-> scalarRef(Name.Int), types |-> types]

\* inferFromResponse: the root fields and the types of {"data":{...}}
inferFromResponse(body, rev) ==
  IF \/ body.raw # "json"
     \/ body.v.k # "object"
     \/ Member(body.v, Name.data).k # "object"
  THEN [fields |-> <<>>, types |-> <<>>]
  ELSE LET data == Member(body.v, Name.data).fields
       IN inferMembers(data, Iter(DOMAIN data, rev), <<>>, <<>>, rev)

\* encoding/json decodes null or a value of the right kind into a field and
\* reports an error for any other kind
IsObjOrNull(v) == v.k \in {"object", "null"}
IsStrOrNull(v) == v.k \in {"string", "null"}
IsArrOrNull(v) == v.k \in {"array", "null"}

\* json.Unmarshal succeeds on a rawField / rawType / rawSchema / rawNameRef
FieldDecodes(f) ==
  /\ IsObjOrNull(f)
  /\ IsStrOrNull(Member(f, Name.name))
  /\ IsObjOrNull(Member(f, Name.type))

TypeDecodes(t) ==
  /\ IsObjOrNull(t)
  /\ IsStrOrNull(Member(t, Name.name))
  /\ IsStrOrNull(Member(t, Name.kind))
  /\ IsArrOrNull(Member(t, Name.fields))
  /\ \A i \in DOMAIN Member(t, Name.fields).elems : FieldDecodes(Member(t, Name.fields).elems[i])

NameRefDecodes(r) == IsObjOrNull(r) /\ IsStrOrNull(Member(r, Name.name))

SchemaDecodes(sch) ==
  /\ IsObjOrNull(sch)
  /\ NameRefDecodes(Member(sch, Name.queryType))
  /\ NameRefDecodes(Member(sch, Name.mutationType))
  /\ NameRefDecodes(Member(sch, Name.subscriptionType))
  /\ IsArrOrNull(Member(sch, Name.types))
  /\ \A i \in DOMAIN Member(sch, Name.types).elems : TypeDecodes(Member(sch, Name.types).elems[i])

\* len(raw.Types) > 0
HasTypes(sch) == Len(Member(sch, Name.types).elems) > 0

\* extractRawSchema: the three shapes in turn; [ok, sch]
extractRawSchema(v) ==
  LET std == Member(Member(v, Name.data), Name.__schema)
      alt == Member(v, Name.__schema)
  IN CASE IsObjOrNull(v) /\ IsObjOrNull(Member(v, Name.data)) /\ SchemaDecodes(std)
            /\ HasTypes(std) -> [ok |-> TRUE, sch |-> std]
       [] IsObjOrNull(v) /\ SchemaDecodes(alt) /\ HasTypes(alt) -> [ok |-> TRUE, sch |-> alt]
       [] SchemaDecodes(v) /\ HasTypes(v) -> [ok |-> TRUE, sch |-> v]
       [] OTHER -> [ok |-> FALSE, sch |-> JNull]

\* schema.TypeKind(rt.Kind): the kinds as the model writes them
KindName(s) ==
  CASE s = Name.OBJECT -> "OBJECT"
    [] s = Name.SCALAR -> "SCALAR"
    [] s = Name.LIST   -> "LIST"
    [] s = <<>>     -> ""
    [] OTHER        -> "OTHER"

RECURSIVE convertTypeRef(_)
convertTypeRef(rt) ==
  [Kind   |-> KindName(Member(rt, Name.kind).s),
   Name   |-> Member(rt, Name.name).s,
   OfType |-> IF Member(rt, Name.ofType).k = "object"
              THEN convertTypeRef(Member(rt, Name.ofType)) ELSE NoRef]

convertField(rf) == Field(Member(rf, Name.name).s, convertTypeRef(Member(rf, Name.type)))

convertType(rt) ==
  LET rfs == Member(rt, Name.fields).elems IN
    Type(Member(rt, Name.name).s, KindName(Member(rt, Name.kind).s),
         [i \in DOMAIN rfs |-> convertField(rfs[i])])

\* schema.Schema; nil is NoSchema
Schema(source, q, m, sub, types) ==
  [nil |-> FALSE, Source |-> source, QueryType |-> q, MutationType |-> m,
   SubscriptionType |-> sub, Types |-> types]

NoSchema ==
  [nil |-> TRUE, Source |-> "", QueryType |-> <<>>, MutationType |-> <<>>,
   SubscriptionType |-> <<>>, Types |-> <<>>]

\* parser.ParseIntrospection on the JSON value of a body
ParseIntrospection(v) ==
  LET raw == extractRawSchema(v) IN
    IF ~raw.ok THEN NoSchema
    ELSE LET rts == Member(raw.sch, Name.types).elems IN
           Schema("introspection",
                  Member(Member(raw.sch, Name.queryType), Name.name).s,
                  Member(Member(raw.sch, Name.mutationType), Name.name).s,
                  Member(Member(raw.sch, Name.subscriptionType), Name.name).s,
                  [i \in DOMAIN rts |-> convertType(rts[i])])

tryParseIntrospection(body) ==
  IF body.raw = "empty" \/ body.raw # "json" \/ ~HasMarker(body.v) THEN NoSchema
  ELSE LET s == ParseIntrospection(body.v) IN
         IF s.nil \/ Len(s.Types) = 0 THEN NoSchema ELSE s

\* the query texts of the exchanges
Queries ==
  [anon |-> "{ user { id name } }",
   named |-> "query U { user { id email posts { id title } } }",
   intro |-> "query IntrospectionQuery { __schema { types { name } } }",
   mut |-> "mutation M { x }",
   sub |-> "# live\n  SUBSCRIPTION S { y }"]

\* a parseOpKind that takes every operation for a query
parseOpKind_queryOnly(query) == "query"

\* parseOpKind: the first line that starts, after blanks and in any letter
\* case, with query, mutation or subscription decides; "query" otherwise
parseOpKind(query) ==
  CASE query = Queries.mut -> "mutation"
    [] query = Queries.sub -> "subscription"
    [] OTHER         -> "query"

\* schema.CapturedRequest, as BuildFromTraffic reads it
Exchange(query, opName, body) ==
  [Query |-> query, OperationName |-> opName, ResponseBody |-> body]

\* a Phase 1 that returns the introspection parse of the last exchange that has one
RECURSIVE Phase1_last(_)
Phase1_last(list) ==
  IF list = <<>> THEN NoSchema
  ELSE LET s == Phase1_last(Tail(list)) IN
         IF ~s.nil THEN s ELSE tryParseIntrospection(Head(list).ResponseBody)

\* Phase 1: the introspection parse of the first exchange that has one
RECURSIVE Phase1(_)
Phase1(list) ==
  IF list = <<>> THEN NoSchema
  ELSE LET s == tryParseIntrospection(Head(list).ResponseBody) IN
         IF ~s.nil THEN s ELSE Phase1(Tail(list))

\* a merge loop that drops the types found in the response
MergeTypes_none(typeMap, newTypes, rev) == typeMap

\* typeMap after merging newTypes into it
MergeTypes(typeMap, newTypes, rev) ==
  [n \in DOMAIN typeMap \cup DOMAIN newTypes |->
     IF n \in DOMAIN typeMap
     THEN IF n \in DOMAIN newTypes THEN mergeType(typeMap[n], newTypes[n], rev)
          ELSE typeMap[n]
     ELSE newTypes[n]]

\* one iteration of the Phase 2 loop on the maps acc
Phase2Step(acc, req, rev) ==
  IF req.Query = "" THEN acc
  ELSE LET opKind == parseOpKind(req.Query)
           bucket == CASE opKind = "mutation"     -> "mutFields"
                       [] opKind = "subscription" -> "subFields"
                       [] OTHER                   -> "queryFields"
           inf    == inferFromResponse(req.ResponseBody, rev)
           found  == AddMissing(acc[bucket], inf.fields)
           named  == IF Len(inf.fields) = 0 /\ req.OperationName # <<>>
                     THEN AddMissing(found, <<Field(req.OperationName, unknownRef)>>)
                     ELSE found
       IN [[acc EXCEPT !.typeMap = MergeTypes(@, inf.types, rev)] EXCEPT ![bucket] = named]

RECURSIVE Phase2(_, _, _)
Phase2(acc, list, rev) ==
  IF list = <<>> THEN acc ELSE Phase2(Phase2Step(acc, Head(list), rev), Tail(list), rev)

\* the schema assembled from the maps of Phase 2
Assemble(acc, rev) ==
  LET qf == ValuesOf(acc.queryFields, rev)
      qt == Type(Name.Query, "OBJECT",
                 IF Len(qf) = 0 THEN <<Field(Name._placeholder, unknownRef)>> ELSE qf)
      mt == IF DOMAIN acc.mutFields # {}
            THEN <<Type(Name.Mutation, "OBJECT", ValuesOf(acc.mutFields, rev))>> ELSE <<>>
      st == IF DOMAIN acc.subFields # {}
            THEN <<Type(Name.Subscription, "OBJECT", ValuesOf(acc.subFields, rev))>> ELSE <<>>
  IN Schema("reconstruction", Name.Query,
            IF DOMAIN acc.mutFields # {} THEN Name.Mutation ELSE <<>>,
            IF DOMAIN acc.subFields # {} THEN Name.Subscription ELSE <<>>,
            ValuesOf(acc.typeMap, rev) \o <<qt>> \o mt \o st)

\* BuildFromTraffic: the schema returned for list when maps are visited in
\* order rev
BuildFromTraffic(list, rev) ==
  LET s == Phase1(list) IN
    IF ~s.nil THEN s
    ELSE Assemble(Phase2([typeMap |-> <<>>, queryFields |-> <<>>, mutFields |-> <<>>,
                          subFields |-> <<>>], list, rev), rev)

\* the response bodies of the exchanges
Bodies ==
  [
   \* {"data":{"user":{"id":"2","name":"B","email":"e"}}}
   user1 |->
     Body("json", JObj(Name.data :> JObj(Name.user :>
       JObj(Name.id :> JStr(<<"2">>) @@ Name.name :> JStr(<<"B">>) @@
            Name.email :> JStr(<<"e">>))))),
   \* {"data":{"user":{"id":"1","name":"A","posts":[{"id":"p","title":"t"}]}}}
   user2 |->
     Body("json", JObj(Name.data :> JObj(Name.user :>
       JObj(Name.id :> JStr(<<"1">>) @@ Name.name :> JStr(<<"A">>) @@
            Name.posts :> JArr(<<JObj(Name.id :> JStr(<<"p">>) @@ Name.title :> JStr(<<"t">>))>>))))),
   \* {"data":{"__schema":{"queryType":{"name":"Query"},"types":[
   \*    {"kind":"OBJECT","name":"Query","fields":[{"name":"me","type":{"kind":"OBJECT","name":"User"}}]},
   \*    {"kind":"OBJECT","name":"User","fields":[{"name":"id","type":{"kind":"SCALAR","name":"ID"}}]}]}}}
   intro1 |->
     Body("json", JObj(Name.data :> JObj(Name.__schema :> JObj(
       Name.queryType :> JObj(Name.name :> JStr(Name.Query)) @@
       Name.types :> JArr(<<
         JObj(Name.kind :> JStr(Name.OBJECT) @@ Name.name :> JStr(Name.Query) @@
              Name.fields :> JArr(<<JObj(Name.name :> JStr(Name.me) @@
                                      Name.type :> JObj(Name.kind :> JStr(Name.OBJECT) @@
                                                     Name.name :> JStr(Name.User)))>>)),
         JObj(Name.kind :> JStr(Name.OBJECT) @@ Name.name :> JStr(Name.User) @@
              Name.fields :> JArr(<<JObj(Name.name :> JStr(Name.id) @@
                                      Name.type :> JObj(Name.kind :> JStr(Name.SCALAR) @@
                                                     Name.name :> JStr(Name.ID)))>>)) >>))))),
   \* {"__schema":{"types":[{"kind":"OBJECT","name":"Root","fields":[{"name":"posts"}]}]}}
   intro2 |->
     Body("json", JObj(Name.__schema :> JObj(Name.types :> JArr(<<
       JObj(Name.kind :> JStr(Name.OBJECT) @@ Name.name :> JStr(Name.Root) @@
            Name.fields :> JArr(<<JObj(Name.name :> JStr(Name.posts))>>)) >>)))),
   \* {"data":{"__schema":{"types":[]}}}: the marker, but no type
   introEmpty |->
     Body("json", JObj(Name.data :> JObj(Name.__schema :> JObj(Name.types :> JArr(<<>>))))),
   \* {"data":{"query":{"id":"1"}}}: an object-valued field named like a root type
   dataQuery |->
     Body("json", JObj(Name.data :> JObj(Name.query :> JObj(Name.id :> JStr(<<"1">>))))),
   \* {"data":{"analyses":[{"id":"1"}],"categories":[null,{"id":"2"}],"bus":[{"id":"3"}]}}
   lists |->
     Body("json", JObj(Name.data :> JObj(
       Name.analyses :> JArr(<<JObj(Name.id :> JStr(<<"1">>))>>) @@
       Name.categories :> JArr(<<JNull, JObj(Name.id :> JStr(<<"2">>))>>) @@
       Name.bus :> JArr(<<JObj(Name.id :> JStr(<<"3">>))>>)))),
   \* {"data":{"user":{"id":5},"me":{"user":{"id":"1"}}}}: the type User from
   \* two places of one response, with different kinds of id
   conflict |->
     Body("json", JObj(Name.data :> JObj(
       Name.user :> JObj(Name.id :> JInt) @@
       Name.me :> JObj(Name.user :> JObj(Name.id :> JStr(<<"1">>)))))),
   \* an HTML error page, and an empty body
   html |->
     Body("text", JNull),
   empty |->
     Body("empty", JNull)]

\* the captured exchanges BuildFromTraffic is given
Captured ==
  [user1 |-> Exchange(Queries.anon, <<>>, Bodies.user1),
   user2 |-> Exchange(Queries.named, <<"U">>, Bodies.user2),
   intro1 |-> Exchange(Queries.intro, <<"I", "Q">>, Bodies.intro1),
   intro2 |-> Exchange(Queries.anon, <<>>, Bodies.intro2),
   introEmpty |-> Exchange(Queries.intro, <<>>, Bodies.introEmpty),
   mut |-> Exchange(Queries.mut, <<"M">>, Bodies.html),
   sub |-> Exchange(Queries.sub, <<>>, Bodies.empty),
   noQuery |-> Exchange("", <<>>, Bodies.user1),
   dataQuery |-> Exchange(Queries.anon, <<>>, Bodies.dataQuery),
   lists |-> Exchange(Queries.anon, <<>>, Bodies.lists),
   conflict |-> Exchange(Queries.anon, <<>>, Bodies.conflict)]

Exchanges == {Captured[k] : k \in DOMAIN Captured}

\* two invocations are compared
Runs == {1, 2}
runIdle == [st |-> "idle", input |-> <<>>, rev |-> FALSE, schema |-> NoSchema]

\* the orders in which a list of n exchanges can be passed
Perms(n) == {f \in [1..n -> 1..n] : \A i \in 1..n : \A j \in 1..n : f[i] = f[j] => i = j}
Permute(list, f) == [i \in DOMAIN list |-> list[f[i]]]

\* invocation r of BuildFromTraffic on the exchanges, passed in the order perm,
\* with maps visited in the order rev
Build(r, perm, rev) ==
  /\ run[r].st = "idle"
  /\ \A q \in Runs : q < r => run[q].st = "done"
  /\ LET list == Permute(exch, perm) IN
       run' = [run EXCEPT ![r] = [st |-> "done", input |-> list, rev |-> rev,
                                  schema |-> BuildFromTraffic(list, rev)]]
  /\ UNCHANGED <<exch, certVars>>
  /\ UNCHANGED <<proxyVars, busVars, conn, client, reqs, store, histVars, lifeVars>>

\* no exchanges and no invocation
InferIdle ==
  /\ exch = <<>>
  /\ run = [r \in Runs |-> runIdle]

(***************************************************************************)
(* Specifications.                                                         *)
(***************************************************************************)
InitProxy ==
  /\ running = FALSE
  /\ listener = "nil"
  /\ projectID = ""
  /\ subs = {}
  /\ subsMu = [w |-> None, r |-> {}]
  /\ chans = <<>>
  /\ conn = [c \in Conns |-> connIdle]
  /\ client = [s \in Clients |-> clientIdle]
  /\ reqs = <<>>
  /\ store = <<>>
  /\ pub = <<>>
  /\ rcvd = <<>>
  /\ eos = {}
  /\ before = <<>>
  /\ live = <<>>
  /\ done = {}
  /\ stopRet = FALSE
  /\ preStop = {}
  /\ lateEnq = {}
  /\ drops = {}
  /\ panics = {}
  /\ serve = <<>>
  /\ lastCall = NoCall
  /\ tagLog = <<>>

\* the engine after NewProxy, over the CertManager main built for it
Init == InitProxy /\ CertLive /\ InferIdle

\* The forwarding specification: connection tasks and every kind of request,
\* upstream outcome, Save outcome and response body.  The live view subscribes
\* before the first connection is accepted.
FwdRequests == Requests
\* the active project: none, or one of two projects
ProjectIDs == {"", "p1", "p2"}

\* the origin of the tunnels where the host does not matter
FwdHost == "a.test:443"

NextFwd ==
  \/ ~running /\ Start(TRUE)
  \/ \E s \in {1} : Cardinality(Made) < 1 /\ Subscribe_make(s)
  \/ \E s \in {1} : Subscribe_lock(s)
  \/ \E s \in {1} : Subscribe_put(s)
  \/ \E s \in {1} : Subscribe_unlock(s)
  \/ \E h \in Made : Recv(h)
  \/ \E c \in FwdTasks : subs # {} /\ LockFree /\ Accept(c)
  \/ \E c \in FwdTasks, first \in {"error", "CONNECT", "HTTP"}, r \in FwdRequests :
       (first = "HTTP" => Len(reqs) < FwdReqs) /\ handleConnection(c, first, r, FwdHost)
  \/ \E c \in FwdTasks, ok \in BOOLEAN : handleConnect(c, ok)
  \/ \E c \in FwdTasks : handleConnect_GetCertificate(c)
  \/ \E c \in FwdTasks, ok \in BOOLEAN : mintCert(c, ok)
  \/ \E c \in FwdTasks : GetCertificate_store(c)
  \/ \E c \in FwdTasks, ok \in BOOLEAN : handleConnect_handshake(c, ok)
  \/ \E c \in FwdTasks, ok \in BOOLEAN, r \in FwdRequests :
       (ok => Len(reqs) < FwdReqs) /\ readInner(c, ok, r)
  \/ \E c \in FwdTasks, up \in {"ok", "error"}, body \in RespBodies :
       forwardAndCapture(c, up, body)
  \/ \E c \in FwdTasks, ok \in BOOLEAN : captureTraffic(c, ok)
  \/ \E c \in FwdTasks : broadcast_RLock(c)
  \/ \E c \in FwdTasks, h \in Made : broadcast_send(c, h)
  \/ \E c \in FwdTasks : broadcast_RUnlock(c)

SpecFwd == Init /\ [][NextFwd]_vars

\* The bus specification: clients subscribe, read and unsubscribe while
\* connection tasks broadcast their captures.  The steps of a connection task
\* that touch neither the subscription map nor a channel (accept, first read,
\* forwarding) are scheduled first, one task after the other; from then on
\* every interleaving of the tasks and the clients is explored.
Forwarding(c) == conn[c].pc \in {"idle", "first", "forward"}

BusTurn(c) ==
  /\ Made = {}
  /\ \A d \in Conns : d < c => conn[d].pc = "save"

BusReady == \A c \in Conns : ~Forwarding(c)

NextBus ==
  \/ ~running /\ Start(TRUE)
  \/ \E s \in Clients :
       BusReady /\ Cardinality(Made) < BusHandles /\ Subscribe_make(s)
  \/ \E s \in Clients : Subscribe_lock(s)
  \/ \E s \in Clients : Subscribe_put(s)
  \/ \E s \in Clients : Subscribe_unlock(s)
  \/ \E s \in Clients, h \in Made : Unsubscribe_lock(s, h)
  \/ \E s \in Clients : Unsubscribe_find(s)
  \/ \E s \in Clients : Unsubscribe_close(s)
  \/ \E s \in Clients : Unsubscribe_unlock(s)
  \/ \E h \in Made : Recv(h)
  \/ \E c \in Conns : BusTurn(c) /\ Accept(c)
  \/ \E c \in Conns : handleConnection(c, "HTTP", ScenarioA, FwdHost)
  \/ \E c \in Conns : forwardAndCapture(c, "ok", "json")
  \/ \E c \in Conns : captureTraffic(c, TRUE)
  \/ \E c \in Conns : broadcast_RLock(c)
  \/ \E c \in Conns, h \in Made : broadcast_send(c, h)
  \/ \E c \in Conns : broadcast_RUnlock(c)

SpecBus == Init /\ [][NextBus]_vars

\* The shutdown specification: the engine is started and stopped while a client
\* is subscribed and a connection task is in flight.
NextStop ==
  \/ \E ok \in BOOLEAN : Len(serve) < MaxStarts /\ Start(ok)
  \/ Stop
  \/ \E s \in {1} : Cardinality(Made) < 1 /\ Subscribe_make(s)
  \/ \E s \in {1} : Subscribe_lock(s)
  \/ \E s \in {1} : Subscribe_put(s)
  \/ \E s \in {1} : Subscribe_unlock(s)
  \/ \E h \in Made : Recv(h)
  \/ \E c \in FwdTasks : Accept(c)
  \/ \E c \in FwdTasks, first \in {"CONNECT", "HTTP"} :
       (first = "HTTP" => Len(reqs) < FwdReqs)
       /\ handleConnection(c, first, ScenarioA, FwdHost)
  \/ \E c \in FwdTasks : handleConnect(c, TRUE)
  \/ \E c \in FwdTasks : handleConnect_GetCertificate(c)
  \/ \E c \in FwdTasks : mintCert(c, TRUE)
  \/ \E c \in FwdTasks : GetCertificate_store(c)
  \/ \E c \in FwdTasks : handleConnect_handshake(c, TRUE)
  \/ \E c \in FwdTasks, ok \in BOOLEAN :
       (ok => Len(reqs) < FwdReqs) /\ readInner(c, ok, ScenarioA)
  \/ \E c \in FwdTasks : forwardAndCapture(c, "ok", "json")
  \/ \E c \in FwdTasks : captureTraffic(c, TRUE)
  \/ \E c \in FwdTasks : broadcast_RLock(c)
  \/ \E c \in FwdTasks, h \in Made : broadcast_send(c, h)
  \/ \E c \in FwdTasks : broadcast_RUnlock(c)

SpecStop == Init /\ [][NextStop]_vars

\* The burst specification (Scenario D): two clients subscribe, then one tunnel
\* carries MaxBurst Scenario A exchanges; the reader of handle 1 receives, the
\* reader of handle 2 never does.
NextBurst ==
  \/ ~running /\ Start(TRUE)
  \/ \E s \in Clients : Cardinality(Made) < 2 /\ Subscribe_make(s)
  \/ \E s \in Clients : Subscribe_lock(s)
  \/ \E s \in Clients : Subscribe_put(s)
  \/ \E s \in Clients : Subscribe_unlock(s)
  \/ Recv(1)
  \/ \E c \in FwdTasks : Cardinality(subs) = 2 /\ LockFree /\ Accept(c)
  \/ \E c \in FwdTasks : handleConnection(c, "CONNECT", ScenarioA, FwdHost)
  \/ \E c \in FwdTasks : handleConnect(c, TRUE)
  \/ \E c \in FwdTasks : handleConnect_GetCertificate(c)
  \/ \E c \in FwdTasks : mintCert(c, TRUE)
  \/ \E c \in FwdTasks : GetCertificate_store(c)
  \/ \E c \in FwdTasks : handleConnect_handshake(c, TRUE)
  \/ \E c \in FwdTasks : Len(reqs) < MaxBurst /\ readInner(c, TRUE, ScenarioA)
  \/ \E c \in FwdTasks : forwardAndCapture(c, "ok", "json")
  \/ \E c \in FwdTasks : captureTraffic(c, TRUE)
  \/ \E c \in FwdTasks : broadcast_RLock(c)
  \/ \E c \in FwdTasks, h \in Made : broadcast_send(c, h)
  \/ \E c \in FwdTasks : broadcast_RUnlock(c)

SpecBurst == Init /\ [][NextBurst]_vars

\* The lifecycle specification: Start, Stop and Running are called in any
\* order, each under p.mu, net.Listen succeeding or failing, while the accept
\* loops run, accept connections and observe the closing of their listener.
NextLife ==
  \/ \E ok \in BOOLEAN : Len(serve) < MaxStarts /\ Start(ok)
  \/ Stop
  \/ Running
  \/ \E l \in 1..MaxStarts : serve_error(l)
  \/ \E l \in 1..MaxStarts : serve_check(l)
  \/ \E c \in Conns : Accept(c)
  \/ \E c \in Conns : handleConnection(c, "error", ScenarioA, FwdHost)

SpecLife == Init /\ [][NextLife]_vars

\* The same with the accept loops scheduled fairly: a loop that can take its
\* next step eventually takes it (every goroutine gets to run).
FairServe ==
  \A l \in 1..MaxStarts : WF_vars(serve_error(l)) /\ WF_vars(serve_check(l))

SpecLifeFair == Init /\ [][NextLife]_vars /\ FairServe

\* The tunnel specification: two clients open CONNECT tunnels to any of the
\* hosts; every step of handleConnect can fail; each tunnel carries Scenario A
\* and Scenario C requests, MaxInner in all, whose upstream calls and Saves
\* succeed or fail.  Nobody is subscribed, so broadcast's loop has no iteration.
MaxInner == 2
TunnelRequests == {ScenarioA, ScenarioC}

NextTunnel ==
  \/ ~running /\ Start(TRUE)
  \/ \E c \in Conns : Accept(c)
  \/ \E c \in Conns, host \in Hosts : handleConnection(c, "CONNECT", ScenarioA, host)
  \/ \E c \in Conns, ok \in BOOLEAN : handleConnect(c, ok)
  \/ \E c \in Conns : handleConnect_GetCertificate(c)
  \/ \E c \in Conns, ok \in BOOLEAN : mintCert(c, ok)
  \/ \E c \in Conns : GetCertificate_store(c)
  \/ \E c \in Conns, ok \in BOOLEAN : handleConnect_handshake(c, ok)
  \/ \E c \in Conns, ok \in BOOLEAN, r \in TunnelRequests :
       (ok => Len(reqs) < MaxInner) /\ readInner(c, ok, r)
  \/ \E c \in Conns, up \in {"ok", "error"} : forwardAndCapture(c, up, "json")
  \/ \E c \in Conns, ok \in BOOLEAN : captureTraffic(c, ok)
  \/ \E c \in Conns : broadcast_RLock(c)
  \/ \E c \in Conns : broadcast_RUnlock(c)

SpecTunnel == Init /\ [][NextTunnel]_vars

\* The silent-client specification: the clients of two connections send a
\* plain request or open a tunnel and may stop sending at any point, leaving
\* the connection open.  TaskStep(c) is the next step of the goroutine of
\* connection c; a read returns as ReadReturns says.
MaxQuietReqs == 2

TaskStep(c) ==
  \/ \E first \in {"error", "CONNECT", "HTTP"} :
       (first = "HTTP" => Len(reqs) < MaxQuietReqs)
       /\ handleConnection(c, first, ScenarioA, FwdHost)
  \/ \E ok \in BOOLEAN : handleConnect(c, ok)
  \/ handleConnect_GetCertificate(c)
  \/ \E ok \in BOOLEAN : mintCert(c, ok)
  \/ GetCertificate_store(c)
  \/ \E ok \in BOOLEAN : handleConnect_handshake(c, ok)
  \/ \E ok \in BOOLEAN : (ok => Len(reqs) < MaxQuietReqs) /\ readInner(c, ok, ScenarioA)
  \/ \E up \in {"ok", "error"} : forwardAndCapture(c, up, "json")
  \/ captureTraffic(c, TRUE)
  \/ broadcast_RLock(c)
  \/ broadcast_RUnlock(c)

NextQuiet ==
  \/ ~running /\ Start(TRUE)
  \/ \E c \in Conns : Accept(c)
  \/ \E c \in Conns : goQuiet(c)
  \/ \E c \in Conns : TaskStep(c)

\* every goroutine gets to run: a task whose next step can be taken takes it
\* (a pending read returns when data, an error or its deadline arrives; the
\* upstream call ends within the client's 30-second Timeout)
FairTasks == \A c \in Conns : WF_vars(TaskStep(c))

SpecQuietFair == Init /\ [][NextQuiet]_vars /\ FairTasks

\* The tagging specification: the handlers of the projects set and clear the
\* active project while two connections capture an exchange each; nobody is
\* subscribed, so broadcast's loop has no iteration.
NextTag ==
  \/ ~running /\ Start(TRUE)
  \/ \E id \in ProjectIDs : Len(tagLog) < MaxSets /\ SetProjectID(id)
  \/ \E c \in Conns : Accept(c)
  \/ \E c \in Conns : handleConnection(c, "HTTP", ScenarioA, FwdHost)
  \/ \E c \in Conns : forwardAndCapture(c, "ok", "json")
  \/ \E c \in Conns : captureTraffic(c, TRUE)
  \/ \E c \in Conns : broadcast_RLock(c)
  \/ \E c \in Conns : broadcast_RUnlock(c)

SpecTag == Init /\ [][NextTag]_vars

\* The certificate specification: successive startups over one config
\* directory, each failing at any point or succeeding, and tasks calling
\* GetCertificate on the live managers.
\* Processes and callers are interchangeable: the one that acts next is the
\* lowest-numbered one that can.
FirstDown(p) == cms[p].st = "none" /\ \A q \in Procs : q < p => cms[q].st = "live"
FirstIdle(g) == getc[g].pc = "idle" /\ \A f \in Callers : f < g => getc[f].pc # "idle"

NextCert ==
  \/ \E p \in Procs, fail \in GenFailures \cup {"read"} :
       Len(startLog) < MaxStartups /\ FirstDown(p) /\ NewCertManager(p, fail)
  \/ \E g \in Callers, p \in Procs, host \in CertHosts :
       FirstIdle(g) /\ GetCertificate_load(g, p, host)
  \/ \E g \in Callers, ok \in BOOLEAN : nextSerial <= MaxMints /\ mintCert(g, ok)
  \/ \E g \in Callers : GetCertificate_store(g)

\* the proxy is constructed but idle; the config directory is in any state
InitDir == InitProxy /\ InitCert /\ InferIdle

SpecCert == InitDir /\ [][NextCert]_vars

\* The inference specification: any list of at most MaxExchanges captured
\* exchanges, on which BuildFromTraffic is invoked twice, each time with the
\* list in any order and the maps visited in either order.
InitTraffic ==
  /\ InitProxy
  /\ CertDown
  /\ exch \in UNION {[1..k -> Exchanges] : k \in 0..MaxExchanges}
  /\ run = [r \in Runs |-> runIdle]

\* The first invocation takes the list as it is (the list itself ranges over
\* every order), the second one takes it in any order.
NextInfer ==
  \E r \in Runs, rev \in BOOLEAN : \E perm \in Perms(Len(exch)) :
    /\ r = 1 => perm = [i \in 1..Len(exch) |-> i]
    /\ Build(r, perm, rev)

SpecInfer == InitTraffic /\ [][NextInfer]_vars

(***************************************************************************)
(* Claims about forwarding and capture.                                    *)
(***************************************************************************)
Count(seq, x) == Cardinality({i \in DOMAIN seq : seq[i] = x})

\* forwardAndCapture has returned for request instance id
Finished(id) == id \in DOMAIN reqs /\ reqs[id].up # "no" /\ \A c \in Conns : conn[c].rid # id

\* the request is classified as GraphQL and extraction yields a non-empty query
GraphQLWithQuery(id) ==
  /\ IsGraphQLRequest(reqs[id].req)
  /\ ExtractGraphQLPayload(reqs[id].req).Query # ""

\* the events that reached a subscriber's buffer or reader
Delivered(h) == rcvd[h] \o chans[h].q

\* C1, read in the way most favourable to the code (the exchange exists once the
\* upstream response was received, and a failed Save is only logged): every
\* request classified as GraphQL with a non-empty extracted query whose upstream
\* call returned a response has, once forwardAndCapture has returned, been
\* handed to Save exactly once and had exactly one event published.
C1_ExactlyOnce ==
  \A id \in DOMAIN reqs :
    Finished(id) /\ GraphQLWithQuery(id) /\ reqs[id].up = "ok" =>
      /\ reqs[id].save # "no"
      /\ Count(store, id) <= 1
      /\ Count(pub, id) = 1

C16_ExtractionFailureNonFatal ==
  \A id \in DOMAIN reqs :
    (reqs[id].up # "no" /\ reqs[id].isGQL /\ reqs[id].query = "") =>
      /\ reqs[id].fwd = reqs[id].req.body
      /\ reqs[id].up = "ok" => reqs[id].wrote = "response"
      /\ Count(store, id) = 0
      /\ Count(pub, id) = 0

(***************************************************************************)
(* Claims about the event bus.                                             *)
(***************************************************************************)
\* C3 as stated: once Stop() has returned (and the engine has not been started
\* again), no handle created before that Stop() is sent an event by a broadcast
\* that began after Stop() returned.
C3_NoEventAfterStop == lateEnq = {}

\* C7: broadcast never blocks on a subscriber (each iteration of its loop can
\* always be taken); an event is enqueued at most once per subscriber; a buffer
\* never holds more than 64 events (so a reader that never receives ends with
\* at most 64); an event is dropped for a subscriber only when that
\* subscriber's own buffer holds 64 events, and every completed broadcast has
\* reached every other registered subscriber.
C7_NonBlockingBroadcast ==
  /\ \A c \in Conns : conn[c].pc = "send" =>
       /\ ENABLED (\/ broadcast_RUnlock(c) \/ \E h \in Made : broadcast_send(c, h))
       /\ \A h \in conn[c].todo : ENABLED broadcast_send(c, h)
  /\ \A h \in Made : Len(chans[h].q) <= ChanCap
  /\ \A d \in drops : d[3] = ChanCap
  /\ \A id \in done : \A h \in live[id] :
       /\ Count(Delivered(h), id) <= 1
       /\ Count(Delivered(h), id) = 0 => <<h, id, ChanCap>> \in drops

\* C7 witness: the reader of handle 2 never received; its buffer holds 64 events
\* and later events were dropped for it, while handle 1 lost nothing and its
\* reader has received more than 64 events.
C7_Witness ==
  /\ Made = {1, 2}
  /\ Len(chans[2].q) = ChanCap
  /\ rcvd[2] = <<>>
  /\ \E d \in drops : d[1] = 2
  /\ \A d \in drops : d[1] # 1
  /\ Len(rcvd[1]) > ChanCap
  /\ Len(rcvd[1]) = Cardinality(done)

\* C8: what a subscriber is delivered (received or still buffered) holds no
\* event twice and only events of broadcasts made while its handle was
\* registered, and never holds an event behind one whose broadcast began after
\* the former's broadcast had completed (before[x] are the broadcasts completed
\* when that of x serialised its event).
C8_BroadcastOrder ==
  \A h \in Made :
    LET D == Delivered(h) IN
      /\ \A i \in DOMAIN D : \A j \in DOMAIN D :
           i < j => D[i] # D[j] /\ D[j] \notin before[D[i]]
      /\ \A i \in DOMAIN D :
           D[i] \in DOMAIN live /\ h \in live[D[i]] /\ Count(pub, D[i]) = 1

\* C8 witness: a reader has received the events of two connections, the first
\* broadcast having completed before the second began.
C8_Witness ==
  \E h \in Made :
    /\ Len(rcvd[h]) = 2
    /\ rcvd[h][1] \in before[rcvd[h][2]]
    /\ reqs[rcvd[h][1]].conn # reqs[rcvd[h][2]].conn

\* C9: when Unsubscribe(h) is about to return, a registered h has been removed
\* from the map and closed and nothing else has changed, and for an
\* unregistered h the map and the set of closed channels are as they were at
\* the call; no panic is raised; a closed handle is in no map and in no
\* broadcast's remaining targets, keeps what was buffered (every completed
\* broadcast that saw it registered is delivered), and its reader sees
\* end-of-stream only with the buffer drained.
C9_Unsubscribe ==
  /\ \A s \in Clients : client[s].pc = "unsub_unlock" =>
       IF client[s].reg
       THEN /\ subs = client[s].subs0 \ {client[s].ch}
            /\ Closed = client[s].closed0 \cup {client[s].ch}
            /\ client[s].ch \notin client[s].closed0
       ELSE /\ subs = client[s].subs0
            /\ Closed = client[s].closed0
  /\ panics = {}
  /\ \A h \in Closed : h \notin subs /\ \A c \in Conns : h \notin conn[c].todo
  /\ \A id \in done : \A h \in live[id] : Count(Delivered(h), id) = 1
  /\ \A h \in eos : h \in Closed /\ chans[h].q = <<>>

\* C9 witness: a handle was unsubscribed with an event buffered, its reader
\* drained it and saw end-of-stream, a later broadcast completed without it,
\* and a second Unsubscribe of the same handle is about to return.
C9_Witness ==
  \E h \in eos :
    /\ rcvd[h] # <<>>
    /\ \E id \in done : h \notin live[id]
    /\ \E s \in Clients :
         client[s].pc = "unsub_unlock" /\ client[s].ch = h /\ ~client[s].reg

\* C10: no send on a closed channel and no second close (no panic); every
\* registered handle is open; no broadcast in progress has a closed handle
\* among its remaining targets; the map is never written while a broadcast
\* holds the read lock.
C10_HandleValidity ==
  /\ panics = {}
  /\ \A h \in subs : h \in Made /\ chans[h].st = "open"
  /\ \A c \in Conns : conn[c].todo \cap Closed = {}
  /\ subsMu.w # None => subsMu.r = {}

\* C10 witness: two broadcasts hold the read lock at once, after one handle was
\* unsubscribed and closed and while another is registered.
C10_Witness ==
  /\ Cardinality(subsMu.r) = 2
  /\ Closed # {}
  /\ subs # {}
  /\ \E c \in Conns : conn[c].todo # {}

(***************************************************************************)
(* Claims about the certificate manager.                                   *)
(***************************************************************************)
\* C4: every chain a successful GetCertificate has returned, in any process and
\* from the cache or freshly minted, has two elements, the leaf for the host
\* asked for and then the CA certificate stored in ca.pem, and the leaf is
\* issued in the name of that certificate and signed with the key it certifies;
\* so all chains returned for one host validate against ca.pem.
C4_ChainValidates ==
  \A r \in issued :
    /\ Len(r.chain) = 2
    /\ r.chain[1].kind = "leaf"
    /\ r.chain[1].host = r.host
    /\ caFile.st = "pem"
    /\ r.chain[2] = CACert(caFile.key)
    /\ r.chain[1].issuer = caFile.key
    /\ r.chain[1].signer = caFile.key

\* C4 witness: a first startup over the empty directory failed after writing
\* ca.pem, the next one generated the CA afresh, and two calls for one host in
\* that process succeeded with different leaves.
C4_Witness ==
  /\ startLog = <<"generate failed", "generated">>
  /\ caFile = Pem(nextKey - 1)
  /\ \E r1 \in issued : \E r2 \in issued :
       /\ r1.proc = r2.proc
       /\ r1.host = r2.host
       /\ r1.chain[1].serial # r2.chain[1].serial

\* C13: an entry of a leaf cache is never removed or replaced, so all successful
\* GetCertificate calls of one process for one host, racing or not, return the
\* chain first stored for it.
C13_SingleInsertion ==
  [][\A p \in Procs : \A h \in DOMAIN certCache[p] :
       h \in DOMAIN certCache'[p] /\ certCache'[p][h] = certCache[p][h]]_vars

\* C14: when both ca.pem and ca-key.pem exist, a startup changes neither file,
\* so a CA is generated only when a file is missing; once a startup has
\* succeeded the files never change again, and every manager, of the first
\* successful startup and of all later ones, holds the keypair in the files.
C14_NeverRotated ==
  /\ [](\A p \in Procs : cms[p].st = "live" =>
          /\ caFile = Pem(cms[p].caCert)
          /\ keyFile = Pem(cms[p].caKey))
  /\ [][(fileExists(caFile) /\ fileExists(keyFile)) \/ (\E p \in Procs : cms[p].st = "live")
          => caFile' = caFile /\ keyFile' = keyFile]_vars

\* C14 witness: the first startup generated the CA over an empty directory, a
\* second one loaded it, and both managers hold the generated keypair.
C14_Witness ==
  /\ startLog = <<"generated", "loaded">>
  /\ \A p \in Procs : cms[p].st = "live" /\ cms[p].caCert = nextKey - 1
                      /\ cms[p].caKey = nextKey - 1
  /\ caFile = Pem(nextKey - 1)
  /\ keyFile = Pem(nextKey - 1)

\* C15: once a startup has generated and persisted a CA, ca-key.pem has mode
\* 0600, whatever the directory held before.
C15_KeyOwnerOnly ==
  (\E i \in DOMAIN startLog : startLog[i] = "generated") => keyMode = "0600"

(***************************************************************************)
(* Claims about schema inference.                                          *)
(***************************************************************************)
TypeNames(s) == {s.Types[i].Name : i \in DOMAIN s.Types}

\* the sets of field names of the types of s that are named n
FieldNames(s, n) ==
  {{s.Types[i].Fields[j].Name : j \in DOMAIN s.Types[i].Fields} :
     i \in {k \in DOMAIN s.Types : s.Types[k].Name = n}}

SameNames(s1, s2) ==
  /\ TypeNames(s1) = TypeNames(s2)
  /\ \A n \in TypeNames(s1) : FieldNames(s1, n) = FieldNames(s2, n)

SameMultiset(l1, l2) ==
  \A x \in Exchanges : Count(l1, x) = Count(l2, x)

\* the response body is a parseable introspection response: it contains the
\* marker and parses to at least one type
Parseable(x) ==
  /\ x.ResponseBody.raw = "json"
  /\ HasMarker(x.ResponseBody.v)
  /\ ~ParseIntrospection(x.ResponseBody.v).nil
  /\ Len(ParseIntrospection(x.ResponseBody.v).Types) >= 1

\* the position in list of the first parseable introspection response, None
\* when there is none
FirstParseable(list) ==
  LET idx == {i \in DOMAIN list : Parseable(list[i])} IN
    IF idx = {} THEN None ELSE CHOOSE i \in idx : \A j \in idx : i <= j

\* the response body Phase 1 returns the parse of, <<>> when there is none
FirstIntrospection(list) ==
  IF FirstParseable(list) = None THEN <<>>
  ELSE <<list[FirstParseable(list)].ResponseBody>>

\* C5 as stated: any two invocations on the same multiset of exchanges, the
\* list in any order, return schemas with equal sets of type names and, for
\* every type, equal sets of field names.
C5_IdempotentAnyOrder ==
  \A r1 \in Runs : \A r2 \in Runs :
    (/\ run[r1].st = "done"
     /\ run[r2].st = "done"
     /\ SameMultiset(run[r1].input, run[r2].input))
    => SameNames(run[r1].schema, run[r2].schema)

\* C5 amended: two invocations on the same multiset of exchanges return schemas
\* with equal sets of type names and, for every type, equal sets of field
\* names, whenever the first parseable introspection response is the same in
\* both lists or neither list has one; this holds for every order of the
\* remaining exchanges and every order in which the maps are visited.
C5_IdempotentSameFirstIntrospection ==
  \A r1 \in Runs : \A r2 \in Runs :
    (/\ run[r1].st = "done"
     /\ run[r2].st = "done"
     /\ SameMultiset(run[r1].input, run[r2].input)
     /\ FirstIntrospection(run[r1].input) = FirstIntrospection(run[r2].input))
    => SameNames(run[r1].schema, run[r2].schema)

\* C5 witness: two responses that show different fields of one object were
\* passed in the two orders, the maps were visited in different orders, the
\* returned schemas differ, and both have the type User with the fields
\* id, name, email and posts.
C5_Witness ==
  /\ run[1].st = "done" /\ run[2].st = "done"
  /\ run[1].input = <<Captured.user1, Captured.user2>>
  /\ run[2].input = <<Captured.user2, Captured.user1>>
  /\ run[1].rev # run[2].rev
  /\ run[1].schema # run[2].schema
  /\ TypeNames(run[2].schema) = {Name.User, Name.Post, Name.Query}
  /\ FieldNames(run[1].schema, Name.User) = {{Name.id, Name.name, Name.email, Name.posts}}
  /\ FieldNames(run[2].schema, Name.User) = {{Name.id, Name.name, Name.email, Name.posts}}

\* C6: when some exchange of the list has a parseable introspection response,
\* BuildFromTraffic returns exactly the introspection parse of the first such
\* exchange in input order: the source is introspection, the root names and the
\* types are those of that parse, in its order, and nothing else is in the
\* result.
C6_Phase1Precedence ==
  \A r \in Runs :
    (run[r].st = "done" /\ FirstParseable(run[r].input) # None) =>
      LET first == run[r].input[FirstParseable(run[r].input)].ResponseBody
          parse == ParseIntrospection(first.v)
      IN /\ run[r].schema = parse
         /\ run[r].schema.Source = "introspection"
         /\ \A i \in DOMAIN run[r].schema.Types :
              /\ i \in DOMAIN parse.Types
              /\ run[r].schema.Types[i] = parse.Types[i]
         /\ \A n \in TypeNames(run[r].schema) :
              \A fs \in FieldNames(run[r].schema, n) : Name._placeholder \notin fs

\* C6 witness: the list held an ordinary response followed by a parseable
\* introspection response, and the returned schema is the introspection one:
\* its only type is Root, and neither User nor a Query root type inferred
\* from the first exchange is in it.
C6_Witness ==
  \E r \in Runs :
    /\ run[r].st = "done"
    /\ run[r].input = <<Captured.user1, Captured.intro2>>
    /\ run[r].schema.Source = "introspection"
    /\ TypeNames(run[r].schema) = {Name.Root}
    /\ TypeNames(BuildFromTraffic(<<Captured.user1>>, run[r].rev)) = {Name.User, Name.Query}

(***************************************************************************)
(* Claims about the engine lifecycle.                                      *)
(***************************************************************************)
\* the listeners of e that are open
OpenListeners(e) == {l \in DOMAIN e.loops : e.loops[l].ln = "open"}

Stopped(e)   == ~e.running /\ e.listener \in {"nil", "closed"} /\ OpenListeners(e) = {}
IsRunning(e) == e.running /\ e.listener = "open" /\ OpenListeners(e) = {Len(e.loops)}

\* C11: the engine is always Stopped or Running, Running() reports which, and
\* every call moves it as the two-state machine says: Start in Stopped either
\* binds one listener, starts its loop, returns no error and leaves the engine
\* Running, or returns the bind error and leaves it Stopped; Start in Running
\* returns the already-running error and changes nothing; Stop in Running
\* closes the listener and leaves the engine Stopped; Stop in Stopped returns no
\* error and changes nothing.
C11_Lifecycle ==
  /\ Stopped(Engine) \/ IsRunning(Engine)
  /\ lastCall.op # "none" =>
       /\ Stopped(lastCall.pre) \/ IsRunning(lastCall.pre)
       /\ Stopped(lastCall.post) \/ IsRunning(lastCall.post)
  /\ lastCall.op = "Start" =>
       IF IsRunning(lastCall.pre)
       THEN lastCall.ret = "already running" /\ lastCall.post = lastCall.pre
       ELSE \/ /\ lastCall.ret = "nil"
               /\ IsRunning(lastCall.post)
               /\ Len(lastCall.post.loops) = Len(lastCall.pre.loops) + 1
               /\ SubSeq(lastCall.post.loops, 1, Len(lastCall.pre.loops)) = lastCall.pre.loops
            \/ /\ lastCall.ret = "listen"
               /\ lastCall.post = lastCall.pre
  /\ lastCall.op = "Stop" =>
       /\ lastCall.ret = "nil"
       /\ Stopped(lastCall.post)
       /\ IF IsRunning(lastCall.pre)
          THEN /\ lastCall.post.listener = "closed"
               /\ lastCall.post.loops =
                    [lastCall.pre.loops EXCEPT ![Len(lastCall.pre.loops)].ln = "closed"]
          ELSE lastCall.post = lastCall.pre
  /\ lastCall.op = "Running" =>
       /\ lastCall.post = lastCall.pre
       /\ lastCall.ret = (IF IsRunning(lastCall.pre) THEN "true" ELSE "false")

\* C11 witness: the engine was started, stopped and started again, and a
\* further Start was refused with the already-running error.
C11_Witness ==
  /\ Len(serve) = 2
  /\ serve[1].ln = "closed"
  /\ lastCall.op = "Start"
  /\ lastCall.ret = "already running"
  /\ IsRunning(Engine)

\* C12: an accept loop whose listener has been closed eventually returns, also
\* when Start is called again before the loop has looked at the error.
C12_LoopExits ==
  \A l \in 1..MaxStarts :
    (l \in DOMAIN serve /\ serve[l].ln = "closed")
      ~> (l \in DOMAIN serve /\ serve[l].pc = "returned")

\* the types of s that are named n
TypesNamed(s, n) == {s.Types[i] : i \in {k \in DOMAIN s.Types : s.Types[k].Name = n}}

\* the maps of Phase 2 at the start of the loop
NoMaps == [typeMap |-> <<>>, queryFields |-> <<>>, mutFields |-> <<>>, subFields |-> <<>>]

\* C17: every schema returned names a query root type that is in its type list
\* and has at least one field; a schema of Phase 2 for which no Query field
\* was found has the Query type with the single field _placeholder of type
\* SCALAR String.
C17_QueryTypeHasField ==
  \A r \in Runs : run[r].st = "done" =>
    LET s == run[r].schema IN
      /\ \E t \in TypesNamed(s, s.QueryType) : Len(t.Fields) >= 1
      /\ (s.Source = "reconstruction"
            /\ DOMAIN Phase2(NoMaps, run[r].input, run[r].rev).queryFields = {})
           => Type(Name.Query, "OBJECT", <<Field(Name._placeholder, unknownRef)>>)
                \in TypesNamed(s, Name.Query)

\* C18: no two entries of the type list of a returned schema have the same name.
C18_UniqueTypeNames ==
  \A r \in Runs : run[r].st = "done" =>
    \A i \in DOMAIN run[r].schema.Types : \A j \in DOMAIN run[r].schema.Types :
      run[r].schema.Types[i].Name = run[r].schema.Types[j].Name => i = j

\* the exchanges of list whose query text is q
WithQuery(list, q) == {i \in DOMAIN list : list[i].Query = q}

\* the schema declares the root rootType under the name n and lists a type of
\* that name
HasRoot(s, rootType, n) == rootType = n /\ TypesNamed(s, n) # {}

\* the exchange gives its root type a field: its response has a data object
\* with a member, or it carries an operation name
Contributes(x, rev) ==
  Len(inferFromResponse(x.ResponseBody, rev).fields) > 0 \/ x.OperationName # <<>>

ProjectAfter(n) == IF n = 0 THEN "" ELSE tagLog[n]

\* C20: every capture carries the project the engine held when captureTraffic
\* read p.projectID: the argument of the last call of SetProjectID completed
\* before that read (the empty string when there was none), and a capture
\* that read the empty string is untagged.
C20_TagIsLastSet ==
  \A i \in DOMAIN reqs :
    /\ reqs[i].sets = -1 => reqs[i].tag = <<>>
    /\ reqs[i].sets # -1 =>
         /\ reqs[i].sets \in 0..Len(tagLog)
         /\ reqs[i].tag = IF ProjectAfter(reqs[i].sets) = "" THEN <<>>
                          ELSE <<ProjectAfter(reqs[i].sets)>>

\* C20 witness: two connections are in captureTraffic at once; one read the
\* project "p1" set by the second call, after "p2"; the other read after a
\* later call had cleared the project and is untagged.
C20_Witness ==
  \E i, j \in DOMAIN reqs :
    /\ conn[reqs[i].conn].pc = "save" /\ conn[reqs[j].conn].pc = "save"
    /\ tagLog = <<"p2", "p1", "">>
    /\ reqs[i].sets = 2 /\ reqs[i].tag = <<"p1">>
    /\ reqs[j].sets = 3 /\ reqs[j].tag = <<>>

(***************************************************************************)
(* Claims about the names and references of inferred types.                *)
(***************************************************************************)
\* the singularisation rule table as the specification words it
RuleTable(s) ==
  CASE HasSuffix(s, <<"i", "e", "s">>) /\ Len(s) > 4 -> SubSeq(s, 1, Len(s) - 3) \o <<"y">>
    [] HasSuffix(s, <<"s", "e", "s">>) /\ Len(s) > 4 -> SubSeq(s, 1, Len(s) - 1)
    [] HasSuffix(s, <<"s">>) /\ Len(s) > 3           -> SubSeq(s, 1, Len(s) - 1)
    [] OTHER                                         -> s

\* the fields of the types of s that are lists of objects
ObjectLists(s) ==
  {f \in UNION {{s.Types[i].Fields[j] : j \in DOMAIN s.Types[i].Fields} : i \in DOMAIN s.Types} :
     f.Type.Kind = "LIST" /\ f.Type.OfType.Kind = "OBJECT"}

\* C28: in a schema of Phase 2 the element type of every list-of-objects field
\* is named PascalCase of the field name singularised by the rule table:
\* ...ies (longer than 4) -> y, ...ses (longer than 4) loses its last s,
\* ...s (longer than 3) loses its s, any other name stays.
C28_ChildTypeName ==
  \A r \in Runs : (run[r].st = "done" /\ run[r].schema.Source = "reconstruction") =>
    \A f \in ObjectLists(run[r].schema) :
      f.Type.OfType.Name = pascalCase(RuleTable(f.Name))

\* the fields (name and TypeRef) of the types of s that are named n
FieldsOf(s, n) ==
  {{s.Types[i].Fields[j] : j \in DOMAIN s.Types[i].Fields} :
     i \in {k \in DOMAIN s.Types : s.Types[k].Name = n}}

\* the reference under the LIST wrappers of ref
RECURSIVE Unwrap(_)
Unwrap(ref) == IF ref.Kind = "LIST" THEN Unwrap(ref.OfType) ELSE ref

\* the fields of all the types of s
AllFields(s) ==
  UNION {{s.Types[i].Fields[j] : j \in DOMAIN s.Types[i].Fields} : i \in DOMAIN s.Types}

\* C29: in a schema of Phase 2, every field whose type, under its LIST
\* wrappers, is of kind OBJECT names a type of the schema's type list, and
\* that type is an OBJECT type.
C29_ReferencesResolve ==
  \A r \in Runs : (run[r].st = "done" /\ run[r].schema.Source = "reconstruction") =>
    \A f \in AllFields(run[r].schema) :
      Unwrap(f.Type).Kind = "OBJECT" =>
        \E t \in TypesNamed(run[r].schema, Unwrap(f.Type).Name) : t.Kind = "OBJECT"

\* C29 witness: a schema of Phase 2 with a reference from a root field
\* (Query.me: Me), from an inferred type (Me.user: User) and through a list
\* (Query.categories: [Category]), each to a type of the list.
C29_Witness ==
  \E r \in Runs :
    /\ run[r].st = "done"
    /\ run[r].schema.Source = "reconstruction"
    /\ Field(Name.me, objectRef(Name.Me)) \in AllFields(run[r].schema)
    /\ \E t \in TypesNamed(run[r].schema, Name.Me) :
         Field(Name.user, objectRef(Name.User)) \in {t.Fields[j] : j \in DOMAIN t.Fields}
    /\ \E f \in AllFields(run[r].schema) :
         /\ f.Name = Name.categories
         /\ f.Type.Kind = "LIST"
         /\ TypesNamed(run[r].schema, Unwrap(f.Type).Name) # {}

\* C30: two invocations on the same list of exchanges, in the same order,
\* return schemas with the same type names and, for every type, the same
\* fields with the same TypeRefs, whatever the order in which the maps of
\* each invocation were visited.
C30_SameRefsAnyMapOrder ==
  \A r1, r2 \in Runs :
    (run[r1].st = "done" /\ run[r2].st = "done" /\ run[r1].input = run[r2].input) =>
      /\ TypeNames(run[r1].schema) = TypeNames(run[r2].schema)
      /\ \A n \in TypeNames(run[r1].schema) :
           FieldsOf(run[r1].schema, n) = FieldsOf(run[r2].schema, n)

(***************************************************************************)
(* Claims about type merging.                                              *)
(***************************************************************************)
\* the object types the walk of one exchange's response produces; an exchange
\* without a query is skipped
Observed(x, rev) ==
  IF x.Query = "" THEN <<>> ELSE inferFromResponse(x.ResponseBody, rev).types

\* the field named f of the type t, as a set (empty when t has none)
FieldNamed(t, f) == {t.Fields[j] : j \in {k \in DOMAIN t.Fields : t.Fields[k].Name = f}}

\* the positions of list whose response produces the type n with a field f
Observers(list, rev, n, f) ==
  {i \in DOMAIN list :
     n \in DOMAIN Observed(list[i], rev) /\ FieldNamed(Observed(list[i], rev)[n], f) # {}}

\* the schema Scenario E expects
ScenarioE_Expected(s) ==
  /\ TypeNames(s) = {Name.Query, Name.User, Name.Post}
  /\ FieldsOf(s, Name.User) =
       {{Field(Name.id, scalarRef(Name.ID)), Field(Name.name, scalarRef(Name.String)),
         Field(Name.email, scalarRef(Name.String)),
         Field(Name.posts, listRef(objectRef(Name.Post)))}}
  /\ FieldsOf(s, Name.Post) =
       {{Field(Name.id, scalarRef(Name.ID)), Field(Name.title, scalarRef(Name.String))}}
  /\ FieldsOf(s, Name.Query) = {{Field(Name.user, objectRef(Name.User))}}

\* in the schema of invocation r every type name produced by the responses
\* is a type whose fields are the union, by name, of the fields observed for
\* it, each field once and with the TypeRef of its first observation, the
\* members of a response being observed in the order doc
KeepsFirst(r, doc) ==
  LET s    == run[r].schema
      list == run[r].input
      obs(n) == {i \in DOMAIN list : n \in DOMAIN Observed(list[i], doc)}
      names(n) == UNION {{Observed(list[i], doc)[n].Fields[j].Name :
                            j \in DOMAIN Observed(list[i], doc)[n].Fields} : i \in obs(n)}
  IN \A n \in UNION {DOMAIN Observed(list[i], doc) : i \in DOMAIN list} :
       \E t \in TypesNamed(s, n) :
         /\ {t.Fields[j].Name : j \in DOMAIN t.Fields} = names(n)
         /\ Len(t.Fields) = Cardinality(names(n))
         /\ \A f \in names(n) :
              LET first == CHOOSE i \in Observers(list, doc, n, f) :
                             \A j \in Observers(list, doc, n, f) : i <= j
              IN FieldNamed(t, f) = FieldNamed(Observed(list[first], doc)[n], f)

\* C27: in every schema of Phase 2, a type name produced more than once,
\* across exchanges or within one response, is one type with the union of the
\* observed fields, each with the TypeRef of its first observation in input
\* order (the exchanges in list order, the members of a response in the order
\* of its text, which is the same for every invocation); the two exchanges of
\* Scenario E give User{id: ID, name: String, email: String, posts: [Post]},
\* Post{id: ID, title: String} and Query.user: User.
C27_MergeKeepsFirst ==
  \E doc \in BOOLEAN :
    \A r \in Runs : (run[r].st = "done" /\ run[r].schema.Source = "reconstruction") =>
      /\ KeepsFirst(r, doc)
      /\ run[r].input = <<Captured.user2, Captured.user1>> => ScenarioE_Expected(run[r].schema)

(***************************************************************************)
(* Claims about failures while forwarding and tunnelling.                  *)
(***************************************************************************)
\* C24: whenever the upstream call of a request has failed, the one thing
\* written to the client for it is the 502 reply (errResp, whose only header is
\* Content-Length: 0), Save was never called for it, it has no row, no event
\* was published or delivered for it, and its task is past the handler, even
\* when the request was classified as GraphQL with a non-empty query.
C24_UpstreamFailure502 ==
  \A id \in DOMAIN reqs :
    reqs[id].up = "error" =>
      /\ reqs[id].wrote = "502"
      /\ reqs[id].resp = "none"
      /\ reqs[id].save = "no"
      /\ Count(store, id) = 0
      /\ Count(pub, id) = 0
      /\ \A h \in Made : Count(Delivered(h), id) = 0
      /\ Finished(id)

\* C24 witness: the upstream call failed for a GraphQL request with a query,
\* while a subscriber was registered
C24_Witness ==
  \E id \in DOMAIN reqs :
    /\ reqs[id].up = "error"
    /\ GraphQLWithQuery(id)
    /\ reqs[id].query # ""
    /\ subs # {}

\* C22: for every request, Save is attempted only after the response was
\* written to the client, an event is published or delivered (and the task is
\* in broadcast) only after Save was attempted, and once forwardAndCapture has
\* returned for an exchange whose Save failed, its event was published once.
C22_SaveFailureHarmless ==
  \A id \in DOMAIN reqs :
    /\ reqs[id].save # "no" => reqs[id].wrote = "response"
    /\ (\/ Count(pub, id) > 0
        \/ \E h \in Made : Count(Delivered(h), id) > 0
        \/ \E c \in Conns : conn[c].rid = id /\ conn[c].pc \in {"rlock", "send", "runlock"})
         => reqs[id].save # "no"
    /\ (Finished(id) /\ reqs[id].save = "failed") => Count(pub, id) = 1

\* C23: a connection task whose GetCertificate call or whose TLS handshake
\* failed is closed without a tunnel; no request was ever read on it, so
\* nothing of it was forwarded, stored or published.  When it was the leaf
\* that failed, the error is the one GetCertificate returned to the task, the
\* failing call left the cache and the issued chains as they were, and a host
\* for which no call ever succeeded is not in the cache.
C23_AbortedTunnel ==
  /\ [](\A c \in Conns : conn[c].err \in {"cert", "handshake"} =>
          /\ conn[c].pc = "closed"
          /\ ~conn[c].tun
          /\ conn[c].rid = None
          /\ \A id \in DOMAIN reqs : reqs[id].conn # c
          /\ \A i \in DOMAIN store : reqs[store[i]].conn # c
          /\ \A i \in DOMAIN pub : reqs[pub[i]].conn # c
          /\ conn[c].err = "cert" =>
               LET h == StripPort(conn[c].host) IN
                 /\ [proc |-> ProxyProc, host |-> h] \in mintErrs
                 /\ (\A i \in issued : i.host # h) => h \notin DOMAIN certCache[ProxyProc])
  /\ [][\A c \in Conns : (conn[c].err = "" /\ conn'[c].err = "cert") =>
          certCache' = certCache /\ issued' = issued]_vars

\* C23 witness: one tunnel was aborted for its leaf and another, to a host that
\* got its leaf, for its handshake, while requests of neither exist
C23_Witness ==
  \E c, d \in Conns :
    /\ conn[c].err = "cert" /\ conn[c].pc = "closed"
    /\ conn[d].err = "handshake" /\ conn[d].pc = "closed"
    /\ StripPort(conn[d].host) \in DOMAIN certCache[ProxyProc]
    /\ StripPort(conn[c].host) \notin DOMAIN certCache[ProxyProc]

C26_ForwardsToTarget ==
  \A id \in DOMAIN reqs :
    LET host == conn[reqs[id].conn].host IN
      (reqs[id].up # "no" /\ conn[reqs[id].conn].tun /\ PortOf(host) # 0) =>
        /\ reqs[id].url.scheme = "https"
        /\ DialAddr(reqs[id].url) = [host |-> StripPort(host), port |-> PortOf(host)]

\* C21: once the client of an accepted connection has gone silent, the
\* connection's task eventually ends (its deferred conn.Close() has run),
\* wherever it was waiting.
C21_SilentClientTaskEnds ==
  \A c \in Conns : (conn[c].quiet /\ conn[c].pc # "idle") ~> (conn[c].pc = "closed")

====
